---- MODULE Spec2Model ----
(***************************************************************************)
(* A model of the competitor price aggregation pipeline of farmavision:   *)
(* the in-memory response caches and the rate limiter of the edge         *)
(* functions, the upstream client, the response normalizer, the           *)
(* per-product monitoring pass and the single-active-profile trigger.     *)
(*                                                                         *)
(* Each component has its own variables, its own initial condition and    *)
(* its own next-state relation; a specification runs one component and    *)
(* leaves the others in their initial state.                              *)
(***************************************************************************)
EXTENDS Integers, Sequences, FiniteSets, Bags, TLC

(***************************************************************************)
(* State.                                                                  *)
(***************************************************************************)
\* response cache: the instance (search or dashboard), the Map, the clock,
\* and the history of the run (firstIns, insCount, lastOp)
VARIABLES inst, cache, now, ticks, prefill, firstIns, insCount, lastOp

\* rate limiter: the Map, the clock, and the log of the requests made
VARIABLES userRequestCounts, rateNow, rateTicks, rateLog

\* upstream client: the position of one call of fetchMenorPrecoAPI, its loop
\* counter, its lastError, what it returned or threw, the clock, and the log
\* of the attempts made
VARIABLES fetchPc, attempt, lastError, fetchResult, fetchNow, fetchLog

\* monitoring pass: the position of one call of monitorProductPrices, the
\* number of products of the profile, the promise of each product, the order
\* in which the promises settled, and what the call returned
VARIABLES monPc, monN, promises, settled, monResults

\* search profiles: the committed rows of search_profiles, the UPDATE
\* statement each database session has in flight, and whether two
\* statements have ever been in flight together
VARIABLES profiles, tx, overlap

\* request handling of search-products: the request, the position of its
\* handler, the spatial key it chose, what the upstream did, the HTTP
\* status of the response, whether the caller is over its rate limit, and
\* the fields of the JSON body of the response
VARIABLES hReq, hPc, hGeohash, hUpstream, hStatus, hLimited, hBody

\* response normalizer: an upstream record, the position of
\* normalizeProduct, and its outcome
VARIABLES nProduct, nPc, nResult

\* scalar fields and summary: the records the upstream returned, the clock,
\* the position of the handler, the normalized records and their resumo
VARIABLES rRecords, rNow, rPc, rProdutos, rResumo

\* derived metrics: the own price and the competitor prices of a product,
\* whether the highest price is passed on, the position in the computation,
\* the metrics computed so far, and the volatility the database computed
VARIABLES mOwn, mPrices, mHighestKnown, mPc, mMetrics, mDbVolatility

\* dashboard summary builder: the number of entries cached before the run,
\* the cache Map, the clock, the number of requests made, the requests in
\* flight, the request answered last, and for each user the result of the last forced refresh that no
\* later request of the user has read yet and whether its cache entry has
\* been left alone since
VARIABLES dPrefill, dCache, dNow, dTicks, dCount, dReq, dLast, dAfterForced, dUntouched

\* competitor registry: the signed-in user, the rows of the pharmacies and
\* price_history tables, response.produtos of each product of the pass, the
\* position of each call of saveCompetitorData, what the closure of each
\* product returned, and the number of the pass
VARIABLES regUser, pharmacies, price_history, regProdutos, save, regResults, regPasses

\* competitor scoring: the observations stored for each pharmacy (an index
\* into Observations) and the pharmacies rows of
\* the user, what calculate_competitor_aggressiveness returned for each
\* competitor in the last pass, the ranks stored before that pass, and the
\* number of passes
VARIABLES scObserved, scPharmacies, scReturned, scPrevRank, scPasses

\* monitoring hook: the active profile of the user, isMonitoringRef.current,
\* the state of the hook, the calls of fetchPrices that are running, and the
\* numbers of calls made, skipped and ended
VARIABLES hkActive, isMonitoringRef, hkState, hkCalls, hkMade, hkSkipped, hkExited

\* search radius: the action of a request, its raio query parameter or body
\* field, and the raio of the upstream request built from it
VARIABLES rdAction, rdQuery, rdBody, rdSent

\* dashboard content: the active insights stored for the user, the stored
\* agression_score of the user's competitors, the dashboard cache, the clock,
\* and the response of the last dashboard read as the client holds it
VARIABLES ctInsights, ctScores, ctCache, ctNow, ctTicks, ctReads, ctResp

\* search cache: the cache of search-products keyed by getCacheKey, the
\* clock, the requests served and the upstream calls made, the last request
\* whose upstream fetch succeeded, and the answer to the last request
VARIABLES shCache, shNow, shTicks, shCount, shFetches, shPrev, shLast

cacheVars == <<inst, cache, now, ticks, prefill, firstIns, insCount, lastOp>>

rateVars == <<userRequestCounts, rateNow, rateTicks, rateLog>>

fetchVars == <<fetchPc, attempt, lastError, fetchResult, fetchNow, fetchLog>>

monVars == <<monPc, monN, promises, settled, monResults>>

profVars == <<profiles, tx, overlap>>

handlerVars == <<hReq, hPc, hGeohash, hUpstream, hStatus, hLimited, hBody>>

normVars == <<nProduct, nPc, nResult>>

resumoVars == <<rRecords, rNow, rPc, rProdutos, rResumo>>

metricsVars == <<mOwn, mPrices, mHighestKnown, mPc, mMetrics, mDbVolatility>>

dashVars == <<dPrefill, dCache, dNow, dTicks, dCount, dReq, dLast, dAfterForced, dUntouched>>

regVars == <<regUser, pharmacies, price_history, regProdutos, save, regResults, regPasses>>

scoreVars == <<scObserved, scPharmacies, scReturned, scPrevRank, scPasses>>

hookVars == <<hkActive, isMonitoringRef, hkState, hkCalls, hkMade, hkSkipped, hkExited>>

radiusVars == <<rdAction, rdQuery, rdBody, rdSent>>

contentVars == <<ctInsights, ctScores, ctCache, ctNow, ctTicks, ctReads, ctResp>>

searchVars == <<shCache, shNow, shTicks, shCount, shFetches, shPrev, shLast>>

vars == <<cacheVars, rateVars, fetchVars, monVars, profVars, handlerVars, normVars, resumoVars, metricsVars, dashVars, regVars, scoreVars, hookVars, radiusVars, contentVars, searchVars>>

\* what a step of one component leaves alone
CacheFrame == UNCHANGED <<rateVars, fetchVars, monVars, profVars, handlerVars, normVars, resumoVars, metricsVars, dashVars, regVars, scoreVars, hookVars, radiusVars, contentVars, searchVars>>

RateFrame == UNCHANGED <<cacheVars, fetchVars, monVars, profVars, handlerVars, normVars, resumoVars, metricsVars, dashVars, regVars, scoreVars, hookVars, radiusVars, contentVars, searchVars>>

FetchFrame == UNCHANGED <<cacheVars, rateVars, monVars, profVars, handlerVars, normVars, resumoVars, metricsVars, dashVars, regVars, scoreVars, hookVars, radiusVars, contentVars, searchVars>>

MonFrame == UNCHANGED <<cacheVars, rateVars, fetchVars, profVars, handlerVars, normVars, resumoVars, metricsVars, dashVars, regVars, scoreVars, hookVars, radiusVars, contentVars, searchVars>>

ProfFrame == UNCHANGED <<cacheVars, rateVars, fetchVars, monVars, handlerVars, normVars, resumoVars, metricsVars, dashVars, regVars, scoreVars, hookVars, radiusVars, contentVars, searchVars>>

HandlerFrame == UNCHANGED <<cacheVars, rateVars, fetchVars, monVars, profVars, normVars, resumoVars, metricsVars, dashVars, regVars, scoreVars, hookVars, radiusVars, contentVars, searchVars>>

NormFrame == UNCHANGED <<cacheVars, rateVars, fetchVars, monVars, profVars, handlerVars, resumoVars, metricsVars, dashVars, regVars, scoreVars, hookVars, radiusVars, contentVars, searchVars>>

ResumoFrame == UNCHANGED <<cacheVars, rateVars, fetchVars, monVars, profVars, handlerVars, normVars, metricsVars, dashVars, regVars, scoreVars, hookVars, radiusVars, contentVars, searchVars>>

MetricsFrame == UNCHANGED <<cacheVars, rateVars, fetchVars, monVars, profVars, handlerVars, normVars, resumoVars, dashVars, regVars, scoreVars, hookVars, radiusVars, contentVars, searchVars>>

DashFrame == UNCHANGED <<cacheVars, rateVars, fetchVars, monVars, profVars, handlerVars, normVars, resumoVars, metricsVars, regVars, scoreVars, hookVars, radiusVars, contentVars, searchVars>>

RegFrame == UNCHANGED <<cacheVars, rateVars, fetchVars, monVars, profVars, handlerVars, normVars, resumoVars, metricsVars, dashVars, scoreVars, hookVars, radiusVars, contentVars, searchVars>>

ScoreFrame == UNCHANGED <<cacheVars, rateVars, fetchVars, monVars, profVars, handlerVars, normVars, resumoVars, metricsVars, dashVars, regVars, hookVars, radiusVars, contentVars, searchVars>>

HookFrame == UNCHANGED <<cacheVars, rateVars, fetchVars, monVars, profVars, handlerVars, normVars, resumoVars, metricsVars, dashVars, regVars, scoreVars, radiusVars, contentVars, searchVars>>

RadiusFrame == UNCHANGED <<cacheVars, rateVars, fetchVars, monVars, profVars, handlerVars, normVars, resumoVars, metricsVars, dashVars, regVars, scoreVars, hookVars, contentVars, searchVars>>

ContentFrame == UNCHANGED <<cacheVars, rateVars, fetchVars, monVars, profVars, handlerVars, normVars, resumoVars, metricsVars, dashVars, regVars, scoreVars, hookVars, radiusVars, searchVars>>

SearchFrame == UNCHANGED <<cacheVars, rateVars, fetchVars, monVars, profVars, handlerVars, normVars, resumoVars, metricsVars, dashVars, regVars, scoreVars, hookVars, radiusVars, contentVars>>

(***************************************************************************)
(* Bounds of the model.                                                    *)
(***************************************************************************)
\* number of clock advances in a run of the cache
MaxTicks == 1
\* number of request bursts in a run of the rate limiter
MaxBursts == 3
\* number of clock advances in a run of the rate limiter
MaxRateTicks == 2
\* number of products of the monitored profile
MaxProducts == 3
\* number of records of an upstream response
MaxRecords == 2
\* number of competitor prices of a product
MaxPrices == 3
\* number of dashboard requests in a run
MaxRequests == 3
\* number of clock advances in a run of the dashboard
MaxDashTicks == 1
\* number of products of a monitoring pass whose saves run concurrently
MaxSaves == 2
\* number of monitoring passes
MaxPasses == 2
\* number of pharmacies rows of the scored user
MaxPharmacies == 3
\* number of scoring passes
MaxScorePasses == 2
\* number of calls of fetchPrices in a run of the hook
MaxCalls == 3

\* competitors of the user that get_top_competitors returns
MaxCompetitors == 2

\* insights stored for the user during a run
MaxInsights == 2

\* dashboard reads of a run
MaxReads == 3

\* clock advances between the dashboard reads of a run
MaxContentTicks == 1

\* search requests of a run
MaxSearches == 3

\* clock advances between the search requests of a run
MaxSearchTicks == 1

(***************************************************************************)
(* Response cache: search-products/index.ts and the dashboard-data edge   *)
(* function keep a module-level Map<string, CacheEntry> each.             *)
(***************************************************************************)

\* const CACHE_TTL_MS = 15 * 60 * 1000 (search-products)
SEARCH_CACHE_TTL_MS == 15 * 60 * 1000
\* const CACHE_TTL_MS = 5 * 60 * 1000 (dashboard-data)
DASHBOARD_CACHE_TTL_MS == 5 * 60 * 1000
\* if (cache.size > 1000) (search-products)
SEARCH_CACHE_MAX == 1000
\* if (cache.size > 100) (dashboard-data)
DASHBOARD_CACHE_MAX == 100

Instances == {"search", "dashboard"}

CACHE_TTL_MS(i) == IF i = "search" THEN SEARCH_CACHE_TTL_MS ELSE DASHBOARD_CACHE_TTL_MS

CacheMax(i) == IF i = "search" THEN SEARCH_CACHE_MAX ELSE DASHBOARD_CACHE_MAX

\* A JavaScript Map is a sequence of entries in insertion order.
MapKeys(m) == {m[j].key : j \in 1..Len(m)}

MapHas(m, k) == \E j \in 1..Len(m) : m[j].key = k

MapGet(m, k) == m[CHOOSE j \in 1..Len(m) : m[j].key = k]

\* Map.prototype.set: a present key keeps its place and gets the new value,
\* an absent key is appended.
MapSet(m, k, d, t) ==
  IF MapHas(m, k)
  THEN [j \in 1..Len(m) |->
          IF m[j].key = k THEN [key |-> k, data |-> d, timestamp |-> t] ELSE m[j]]
  ELSE Append(m, [key |-> k, data |-> d, timestamp |-> t])

MapDelete(m, k) == SelectSeq(m, LAMBDA e : e.key # k)

\* (mutant) the key written last instead of the first one
FirstKey_Last(m) == m[Len(m)].key

\* cache.keys().next().value
FirstKey(m) == m[1].key

\* setCache(key, data): cache keys are never the empty string, so the
\* `if (firstKey)` test always passes when the map is not empty.
setCache(m, k, d, t, max) ==
  LET m1 == MapSet(m, k, d, t)
  IN IF Len(m1) > max THEN MapDelete(m1, FirstKey(m1)) ELSE m1

Miss == [hit |-> FALSE, data |-> 0]

\* (mutant) an entry expires on reaching the TTL
Expired_AtTtl(e, t, ttl) == t - e.timestamp >= ttl

\* whether getFromCache finds the entry expired: now - entry.timestamp > CACHE_TTL_MS
Expired(e, t, ttl) == t - e.timestamp > ttl

\* getFromCache(key): the value returned
getFromCacheResult(m, k, t, ttl) ==
  IF ~MapHas(m, k) THEN Miss
  ELSE IF Expired(MapGet(m, k), t, ttl) THEN Miss
  ELSE [hit |-> TRUE, data |-> MapGet(m, k).data]

\* getFromCache(key): the map it leaves (an expired entry is deleted)
getFromCacheMap(m, k, t, ttl) ==
  IF MapHas(m, k) /\ Expired(MapGet(m, k), t, ttl) THEN MapDelete(m, k) ELSE m

\* the cache after setCache of the keys 1..n (n <= max) at time 0: no call
\* overflows, so each key is appended in turn
Prefilled(n, max) ==
  [j \in 1..n |-> [key |-> j, data |-> 1, timestamp |-> 0]]

\* keys a run reads and writes: the oldest one and one not yet cached
KeysIn == {1, prefill + 1}

\* two responses that differ
Payloads == {1, 2}

NoOp == [op |-> "none", key |-> 0, res |-> Miss, evicted |-> {}]

CacheIdle ==
  /\ inst = "search"
  /\ prefill = 0
  /\ cache = <<>>
  /\ now = 0
  /\ ticks = 0
  /\ firstIns = [k \in {1} |-> 0]
  /\ insCount = 0
  /\ lastOp = NoOp

\* a process that has cached one response, or one whose cache has been
\* filled to its capacity by earlier requests
CacheInit ==
  /\ inst \in Instances
  /\ prefill \in {1, CacheMax(inst)}
  /\ cache = Prefilled(prefill, CacheMax(inst))
  /\ now = 0
  /\ ticks = 0
  /\ firstIns = [k \in 1..(prefill + 1) |-> IF k <= prefill THEN k ELSE 0]
  /\ insCount = prefill
  /\ lastOp = NoOp

SetCacheOp(k, d) ==
  /\ cache' = setCache(cache, k, d, now, CacheMax(inst))
  /\ lastOp' = [op |-> "set", key |-> k, res |-> Miss,
                evicted |-> (MapKeys(cache) \cup {k}) \ MapKeys(cache')]
  /\ insCount' = IF MapHas(cache, k) THEN insCount ELSE insCount + 1
  /\ firstIns' = [h \in DOMAIN firstIns |->
                    IF h \in lastOp'.evicted THEN 0
                    ELSE IF h = k /\ insCount' # insCount THEN insCount'
                    ELSE firstIns[h]]
  /\ UNCHANGED <<inst, now, ticks, prefill>>
  /\ CacheFrame

GetFromCacheOp(k) ==
  /\ cache' = getFromCacheMap(cache, k, now, CACHE_TTL_MS(inst))
  /\ lastOp' = [op |-> "get", key |-> k,
                res |-> getFromCacheResult(cache, k, now, CACHE_TTL_MS(inst)),
                evicted |-> {}]
  /\ firstIns' = IF MapHas(cache', k) = MapHas(cache, k) THEN firstIns
                 ELSE [firstIns EXCEPT ![k] = 0]
  /\ UNCHANGED <<inst, now, ticks, prefill, insCount>>
  /\ CacheFrame

\* Date.now() advances between two operations
Tick(d) ==
  /\ ticks < MaxTicks
  /\ now' = now + d
  /\ ticks' = ticks + 1
  /\ UNCHANGED <<inst, cache, prefill, firstIns, insCount, lastOp>>
  /\ CacheFrame

\* clock advances that put an entry written before at its TTL and just past it
TickSteps == {CACHE_TTL_MS(inst), CACHE_TTL_MS(inst) + 1}

\* a step of setCache / of getFromCache (the clock stands still in both)
IsSetStep == lastOp'.op = "set" /\ now' = now

IsGetStep == lastOp'.op = "get" /\ now' = now

NextCache ==
  \/ \E k \in KeysIn, d \in Payloads : SetCacheOp(k, d)
  \/ \E k \in KeysIn : GetFromCacheOp(k)
  \/ \E d \in TickSteps : Tick(d)

(***************************************************************************)
(* Rate limiter: checkRateLimit over the module-level userRequestCounts   *)
(* map of search-products/index.ts.                                       *)
(***************************************************************************)

\* req.headers.get("x-user-id") || "anonymous"
UserIds == {"anonymous", "user-1"}

\* resetTime: now + 60000
RATE_WINDOW_MS == 60000

\* (mutant) the limit is tested after the 61st request
LimitReached_Late(count) == count > 60

\* if (userLimit.count >= 60) return false
LimitReached(count) == count >= 60

\* (mutant) the request that opens a window is not counted
OpenWindow_Uncounted(t) == [count |-> 0, resetTime |-> t + RATE_WINDOW_MS]

\* userRequestCounts.set(userId, { count: 1, resetTime: now + 60000 })
OpenWindow(t) == [count |-> 1, resetTime |-> t + RATE_WINDOW_MS]

\* !userLimit || now > userLimit.resetTime
WindowOver(m, u, t) == u \notin DOMAIN m \/ t > m[u].resetTime

\* checkRateLimit(userId) at time t: the map it leaves and its return value
checkRateLimit(m, u, t) ==
  IF WindowOver(m, u, t)
  THEN [map |-> [v \in DOMAIN m \cup {u} |-> IF v = u THEN OpenWindow(t) ELSE m[v]],
        ok |-> TRUE]
  ELSE IF LimitReached(m[u].count)
  THEN [map |-> m, ok |-> FALSE]
  ELSE [map |-> [m EXCEPT ![u].count = m[u].count + 1], ok |-> TRUE]

RECURSIVE Burst(_, _, _, _, _)
\* n requests of u arriving one after the other at time t; accepted counts
\* the calls that returned true
Burst(m, u, t, n, accepted) ==
  IF n = 0 THEN [map |-> m, accepted |-> accepted]
  ELSE IF checkRateLimit(m, u, t).ok
  THEN Burst(checkRateLimit(m, u, t).map, u, t, n - 1, accepted + 1)
  ELSE Burst(checkRateLimit(m, u, t).map, u, t, n - 1, accepted)

\* the bursts of a run: one request, a window's quota or one less from the
\* shared anonymous identity, and a window's quota from another caller
BurstSizes(u) == IF u = "anonymous" THEN {1, 59, 60} ELSE {60}

\* clock advances: one second, and the length of a window
RateTickSteps == {1000, RATE_WINDOW_MS}

RateInit ==
  /\ userRequestCounts = <<>>
  /\ rateNow = 0
  /\ rateTicks = 0
  /\ rateLog = <<>>

\* rateLog records each burst: the identity, the time, the number of requests
\* sent and the number accepted
Requests(u, n) ==
  /\ Len(rateLog) < MaxBursts
  /\ userRequestCounts' = Burst(userRequestCounts, u, rateNow, n, 0).map
  /\ rateLog' = Append(rateLog,
                  [user |-> u, t |-> rateNow, sent |-> n,
                   accepted |-> Burst(userRequestCounts, u, rateNow, n, 0).accepted])
  /\ UNCHANGED <<rateNow, rateTicks>>
  /\ RateFrame

RateTick(d) ==
  /\ rateTicks < MaxRateTicks
  /\ rateNow' = rateNow + d
  /\ rateTicks' = rateTicks + 1
  /\ UNCHANGED <<userRequestCounts, rateLog>>
  /\ RateFrame

NextRate ==
  \/ \E u \in UserIds : \E n \in BurstSizes(u) : Requests(u, n)
  \/ \E d \in RateTickSteps : RateTick(d)

(***************************************************************************)
(* Upstream client: fetchMenorPrecoAPI(endpoint, retries = 2) of          *)
(* search-products/index.ts, one call of it.                              *)
(***************************************************************************)

\* the default of the parameter retries; no caller passes another value
Retries == 2

\* const REQUEST_TIMEOUT_MS = 30000
REQUEST_TIMEOUT_MS == 30000

\* What the upstream can do to one attempt: answer 2xx with a JSON body
\* (with or without products), answer 2xx with a body that is not JSON,
\* answer non-2xx, fail at the network, or stay silent until the abort.
Responses == {"ok-empty", "ok-items", "ok-notjson", "http-500", "network", "timeout"}

\* the time one attempt takes: the abort fires after REQUEST_TIMEOUT_MS
Duration(r) == IF r = "timeout" THEN REQUEST_TIMEOUT_MS ELSE 0

\* the body of the try block: fetchWithTimeout, the response.ok test and
\* response.json(); the error carries the attempt that raised it
TryAttempt(r, a) ==
  IF r = "timeout" THEN [ok |-> FALSE, data |-> "none", error |-> <<"AbortError", a>>]
  ELSE IF r = "network" THEN [ok |-> FALSE, data |-> "none", error |-> <<"TypeError", a>>]
  ELSE IF r = "http-500" THEN [ok |-> FALSE, data |-> "none", error |-> <<"API returned 500", a>>]
  ELSE IF r = "ok-notjson" THEN [ok |-> FALSE, data |-> "none", error |-> <<"SyntaxError", a>>]
  ELSE IF r = "ok-empty" THEN [ok |-> TRUE, data |-> "produtos: []", error |-> <<>>]
  ELSE [ok |-> TRUE, data |-> "produtos: [p1]", error |-> <<>>]

\* (mutant) the backoff starts at two seconds
BackoffMs_Doubled(a) == (2 ^ (a + 1)) * 1000

\* Math.pow(2, attempt) * 1000
BackoffMs(a) == (2 ^ a) * 1000

FetchInit ==
  /\ fetchPc = "idle"
  /\ attempt = 0
  /\ lastError = <<>>
  /\ fetchResult = "none"
  /\ fetchNow = 0
  /\ fetchLog = <<>>

\* the call: let lastError = null; attempt = 0
FetchCall ==
  /\ fetchPc = "idle"
  /\ fetchPc' = "try"
  /\ attempt' = 0
  /\ lastError' = <<>>
  /\ UNCHANGED <<fetchResult, fetchNow, fetchLog>>
  /\ FetchFrame

\* one pass of the loop body up to its next await or its exit: the try
\* block returns the data, or the catch block records the error and either
\* starts the backoff timer or, on the last attempt, leaves the loop and
\* throws lastError
FetchAttempt(r) ==
  /\ fetchPc = "try"
  /\ attempt <= Retries
  /\ fetchNow' = fetchNow + Duration(r)
  /\ fetchLog' = Append(fetchLog,
       [attempt |-> attempt, at |-> fetchNow, end |-> fetchNow',
        ok |-> TryAttempt(r, attempt).ok, data |-> TryAttempt(r, attempt).data,
        error |-> TryAttempt(r, attempt).error])
  /\ IF TryAttempt(r, attempt).ok
     THEN /\ fetchPc' = "returned"
          /\ fetchResult' = TryAttempt(r, attempt).data
          /\ UNCHANGED <<attempt, lastError>>
     ELSE /\ lastError' = TryAttempt(r, attempt).error
          /\ IF attempt < Retries
             THEN fetchPc' = "backoff" /\ UNCHANGED <<attempt, fetchResult>>
             ELSE /\ attempt' = attempt + 1
                  /\ fetchPc' = "threw"
                  /\ fetchResult' = lastError'
  /\ FetchFrame

\* the backoff timer fires: attempt++ and the next pass begins
FetchBackoff ==
  /\ fetchPc = "backoff"
  /\ fetchNow' = fetchNow + BackoffMs(attempt)
  /\ attempt' = attempt + 1
  /\ fetchPc' = "try"
  /\ UNCHANGED <<lastError, fetchResult, fetchLog>>
  /\ FetchFrame

NextFetch ==
  \/ FetchCall
  \/ \E r \in Responses : FetchAttempt(r)
  \/ FetchBackoff

(***************************************************************************)
(* Monitoring pass: monitorProductPrices of src/lib/dashboardService.ts,  *)
(* one call of it over a profile of monN products.                        *)
(***************************************************************************)

\* A value that may be null is a sequence of length at most one.
Null == <<>>

Some(v) == <<v>>

Falsy_NullOnly(o) == o = Null

\* !x of a number that may be null: null and 0 are falsy
Falsy(o) == o = Null \/ o[1] = 0

\* own_price of the products of the profile: every second product has none
OwnPrice(p) == IF p % 2 = 0 THEN Null ELSE Some(p + 4)

\* What searchProducts can resolve with (response.produtos, as the edge
\* function normalizes it: every item has a valor and an estabelecimento);
\* a call that is not ok throws (non-2xx answer, network error).
ProductLists == {
  <<>>,
  <<[nome |-> "A", valor |-> 6]>>,
  <<[nome |-> "A", valor |-> 8], [nome |-> "B", valor |-> 0], [nome |-> "C", valor |-> 4]>> }

SearchOutcomes ==
  {[ok |-> FALSE, produtos |-> <<>>]} \cup {[ok |-> TRUE, produtos |-> l] : l \in ProductLists}

RECURSIVE SumValor(_)
SumValor(s) == IF s = <<>> THEN 0 ELSE s[1].valor + SumValor(Tail(s))

\* .filter(p => p.valor > 0)
Priced(produtos) == SelectSeq(produtos, LAMBDA q : q.valor > 0)

\* insertion of an item into a list sorted by price, after its equals
RECURSIVE InsertByPrice(_, _)
InsertByPrice(s, q) ==
  IF s = <<>> THEN <<q>>
  ELSE IF q.valor < s[1].valor THEN <<q>> \o s
  ELSE <<s[1]>> \o InsertByPrice(Tail(s), q)

\* .sort((a, b) => a.price - b.price), a stable sort
RECURSIVE SortByPrice(_)
SortByPrice(s) ==
  IF s = <<>> THEN <<>>
  ELSE InsertByPrice(SortByPrice(SubSeq(s, 1, Len(s) - 1)), s[Len(s)])

MinValor(s) == CHOOSE v \in {s[j].valor : j \in 1..Len(s)} : \A j \in 1..Len(s) : v <= s[j].valor

MaxValor(s) == CHOOSE v \in {s[j].valor : j \in 1..Len(s)} : \A j \in 1..Len(s) : v >= s[j].valor

\* the average of the prices, kept as the fraction sum / count
AvgValor(s) == IF s = <<>> THEN Null ELSE Some([num |-> SumValor(s), den |-> Len(s)])

\* determineStatus(ownPrice, avgCompetitorPrice, highestCompetitorPrice)
determineStatus(own, avg, highest) ==
  IF Falsy(own) THEN "no_price"
  ELSE IF avg = Null \/ avg[1].num = 0 THEN "no_price"
  ELSE IF own[1] * avg[1].den < avg[1].num THEN "competitive"
  ELSE IF (IF Falsy(highest) THEN own[1] * avg[1].den > avg[1].num
                             ELSE own[1] > highest[1]) THEN "high"
  ELSE "moderate"

\* the monitoredProduct built in the try block from response.produtos
\* (volatility, trend and price_change are derived from the same prices)
Monitored(p, produtos) ==
  [id |-> p,
   own_price |-> OwnPrice(p),
   competitor_prices |-> [j \in 1..Len(Priced(produtos)) |-> Priced(produtos)[j].valor],
   lowest_competitor_price |->
     IF Priced(produtos) = <<>> THEN Null ELSE Some(MinValor(Priced(produtos))),
   highest_competitor_price |->
     IF Priced(produtos) = <<>> THEN Null ELSE Some(MaxValor(Priced(produtos))),
   avg_competitor_price |-> AvgValor(Priced(produtos)),
   status |-> determineStatus(OwnPrice(p), AvgValor(Priced(produtos)),
                IF Priced(produtos) = <<>> THEN Null ELSE Some(MaxValor(Priced(produtos)))),
   total_competitors |-> Len(produtos),
   pharmacy_details |-> SortByPrice(Priced(produtos))]

\* the object returned by the catch block
Degraded(p) ==
  [id |-> p,
   own_price |-> OwnPrice(p),
   competitor_prices |-> <<>>,
   lowest_competitor_price |-> Null,
   highest_competitor_price |-> Null,
   avg_competitor_price |-> Null,
   status |-> "no_price",
   total_competitors |-> 0,
   pharmacy_details |-> <<>>]

\* a promise of searchPromises: pending at the call of searchProducts,
\* saving at the call of saveCompetitorData, then fulfilled with a value
Pending == [status |-> "pending", upstream |-> Null, saved |-> "none", value |-> Null]

\* saveCompetitorData catches whatever its queries raise, and returns
\* early without a signed-in user
SaveOutcomes == {"saved", "caught"}

\* (mutant) the results in the order in which the promises settled
SettledInOrder_ByCompletion(ps, order) == [i \in 1..Len(order) |-> ps[order[i]]]

\* Promise.allSettled(searchPromises): one result per promise, at the
\* index of the promise
SettledInOrder(ps, order) == [i \in 1..Len(order) |-> ps[i]]

\* .filter(result => result.status === 'fulfilled').map(result => result.value)
FulfilledValues(rs) ==
  [i \in 1..Len(SelectSeq(rs, LAMBDA r : r.status = "fulfilled")) |->
     SelectSeq(rs, LAMBDA r : r.status = "fulfilled")[i].value[1]]

MonInit ==
  /\ monPc = "idle"
  /\ monN \in 0..MaxProducts
  /\ promises = <<>>
  /\ settled = <<>>
  /\ monResults = <<>>

MonIdle ==
  /\ monPc = "idle"
  /\ monN = 0
  /\ promises = <<>>
  /\ settled = <<>>
  /\ monResults = <<>>

\* the call: an empty profile returns [] at once; otherwise products.map
\* starts one closure per product, each up to its call of searchProducts
MonitorCall ==
  /\ monPc = "idle"
  /\ IF monN = 0
     THEN monPc' = "returned" /\ promises' = <<>>
     ELSE monPc' = "running" /\ promises' = [q \in 1..monN |-> Pending]
  /\ UNCHANGED <<monN, settled, monResults>>
  /\ MonFrame

\* searchProducts of product q settles: on a throw the catch block fulfils
\* the promise with the degraded object; otherwise the closure builds
\* monitoredProduct and calls saveCompetitorData
SearchSettles(q, r) ==
  /\ monPc = "running"
  /\ q \in 1..monN
  /\ promises[q].status = "pending"
  /\ IF r.ok
     THEN /\ promises' = [promises EXCEPT ![q] =
               [status |-> "saving", upstream |-> Some(r), saved |-> "none",
                value |-> Some(Monitored(q, r.produtos))]]
          /\ UNCHANGED settled
     ELSE /\ promises' = [promises EXCEPT ![q] =
               [status |-> "fulfilled", upstream |-> Some(r), saved |-> "none",
                value |-> Some(Degraded(q))]]
          /\ settled' = Append(settled, q)
  /\ UNCHANGED <<monPc, monN, monResults>>
  /\ MonFrame

\* saveCompetitorData of product q returns: the closure returns
\* monitoredProduct
SaveSettles(q, o) ==
  /\ monPc = "running"
  /\ q \in 1..monN
  /\ promises[q].status = "saving"
  /\ promises' = [promises EXCEPT ![q].status = "fulfilled", ![q].saved = o]
  /\ settled' = Append(settled, q)
  /\ UNCHANGED <<monPc, monN, monResults>>
  /\ MonFrame

\* every promise has settled: allSettled resolves and the call returns
MonitorJoin ==
  /\ monPc = "running"
  /\ \A q \in 1..monN : promises[q].status \in {"fulfilled", "rejected"}
  /\ monResults' = FulfilledValues(SettledInOrder(promises, settled))
  /\ monPc' = "returned"
  /\ UNCHANGED <<monN, promises, settled>>
  /\ MonFrame

NextMonitor ==
  \/ MonitorCall
  \/ \E q \in 1..MaxProducts : \E r \in SearchOutcomes : SearchSettles(q, r)
  \/ \E q \in 1..MaxProducts : \E o \in SaveOutcomes : SaveSettles(q, o)
  \/ MonitorJoin


(***************************************************************************)
(* Search profiles: the table search_profiles with its trigger            *)
(* ensure_single_active_profile, and the statements the profile manager   *)
(* sends (handleSaveProfile, handleActivateProfile).  Each statement runs *)
(* in a transaction of its own at the isolation level of the database,    *)
(* READ COMMITTED: no migration and no client call sets another level,    *)
(* takes a table lock or declares a unique index on the active flag.      *)
(***************************************************************************)

ProfileIds == {"A", "B", "C", "X"}

\* user_id of a profile
Owner(p) == IF p = "X" THEN "user-2" ELSE "user-1"

\* concurrent database sessions (two browser tabs, two devices)
Sessions == {"s1", "s2"}

\* update({ is_active: true }) of handleActivateProfile, and the update of
\* handleSaveProfile, which leaves is_active as it is
Kinds == {"activate", "edit"}

NoRow == [exists |-> FALSE, is_active |-> FALSE]

IdleTx == [pc |-> "idle", kind |-> "none", target |-> "none", newActive |-> FALSE,
           todo |-> {}, cleared |-> {}]

\* the row locks a session holds: the row of its UPDATE and the rows its
\* trigger has updated
Locks(s) == IF tx[s].pc = "idle" THEN {} ELSE {tx[s].target} \cup tx[s].cleared

LockedByOther(s, r) == \E t \in Sessions \ {s} : r \in Locks(t)

\* WHERE user_id = NEW.user_id AND id != NEW.id AND is_active = TRUE,
\* over the rows committed when the statement of the trigger starts
TriggerMatches(rows, target) ==
  {r \in ProfileIds : /\ rows[r].exists
                      /\ Owner(r) = Owner(target)
                      /\ r # target
                      /\ rows[r].is_active}

\* s waits for a row lock that t holds
WaitsFor(s, t) ==
  /\ s # t
  /\ tx[s].pc = "inner"
  /\ \E r \in tx[s].todo : r \in Locks(t)

ProfInit ==
  /\ profiles = [r \in ProfileIds |-> NoRow]
  /\ tx = [s \in Sessions |-> IdleTx]
  /\ overlap = FALSE

\* handleSaveProfile, new profile: insert({ ..., is_active: false }); the
\* trigger finds NEW.is_active false and updates nothing
InsertProfile(r) ==
  /\ ~profiles[r].exists
  /\ profiles' = [profiles EXCEPT ![r] = [exists |-> TRUE, is_active |-> FALSE]]
  /\ UNCHANGED <<tx, overlap>>
  /\ ProfFrame

\* UPDATE search_profiles SET ... WHERE id = r: the session locks the row
\* once no other session holds it, and builds NEW from its latest version
BeginUpdate(s, k, r) ==
  /\ tx[s].pc = "idle"
  /\ profiles[r].exists
  /\ ~LockedByOther(s, r)
  /\ tx' = [tx EXCEPT ![s] =
       [pc |-> "trigger", kind |-> k, target |-> r,
        newActive |-> IF k = "activate" THEN TRUE ELSE profiles[r].is_active,
        todo |-> {}, cleared |-> {}]]
  /\ overlap' = (overlap \/ \E t \in Sessions \ {s} : tx[t].pc # "idle")
  /\ UNCHANGED profiles
  /\ ProfFrame

\* the BEFORE trigger: IF NEW.is_active = TRUE, its UPDATE starts and reads
\* the rows to deactivate from the rows committed at this moment
RunTrigger(s) ==
  /\ tx[s].pc = "trigger"
  /\ tx' = [tx EXCEPT ![s].pc = "inner",
                       ![s].todo = IF tx[s].newActive
                                   THEN TriggerMatches(profiles, tx[s].target)
                                   ELSE {}]
  /\ UNCHANGED <<profiles, overlap>>
  /\ ProfFrame

\* the UPDATE of the trigger reaches row r: it takes the row lock once it
\* is free, checks is_active = TRUE again on the latest committed version
\* of the row, and sets is_active = FALSE
InnerRow(s, r) ==
  /\ tx[s].pc = "inner"
  /\ r \in tx[s].todo
  /\ ~LockedByOther(s, r)
  /\ tx' = [tx EXCEPT ![s].todo = tx[s].todo \ {r},
                       ![s].cleared = IF profiles[r].is_active
                                      THEN tx[s].cleared \cup {r}
                                      ELSE tx[s].cleared]
  /\ UNCHANGED <<profiles, overlap>>
  /\ ProfFrame

\* the trigger returns NEW, the row is written and the statement commits
Commit(s) ==
  /\ tx[s].pc = "inner"
  /\ tx[s].todo = {}
  /\ profiles' = [r \in ProfileIds |->
       IF r = tx[s].target THEN [exists |-> TRUE, is_active |-> tx[s].newActive]
       ELSE IF r \in tx[s].cleared THEN [exists |-> TRUE, is_active |-> FALSE]
       ELSE profiles[r]]
  /\ tx' = [tx EXCEPT ![s] = IdleTx]
  /\ UNCHANGED overlap
  /\ ProfFrame

\* two sessions wait for each other's row locks: the database aborts one
\* of them, whose changes are rolled back
DeadlockAbort(s) ==
  /\ \E t \in Sessions : WaitsFor(s, t) /\ WaitsFor(t, s)
  /\ tx' = [tx EXCEPT ![s] = IdleTx]
  /\ UNCHANGED <<profiles, overlap>>
  /\ ProfFrame

NextProfiles ==
  \/ \E r \in ProfileIds : InsertProfile(r)
  \/ \E s \in Sessions, k \in Kinds, r \in ProfileIds : BeginUpdate(s, k, r)
  \/ \E s \in Sessions : RunTrigger(s)
  \/ \E s \in Sessions, r \in ProfileIds : InnerRow(s, r)
  \/ \E s \in Sessions : Commit(s)
  \/ \E s \in Sessions : DeadlockAbort(s)

(***************************************************************************)
(* Values and the geo-encoder of search-products/index.ts.                *)
(*                                                                         *)
(* A JavaScript string is a sequence of characters.  A number is a pair   *)
(* nan/v, v counting units of 2^-21 degree: every midpoint encodeGeohash  *)
(* computes for 9 characters, and the centre decodeGeohash returns for up *)
(* to 9 characters, is a whole number of units, so the arithmetic below   *)
(* is the arithmetic of the doubles.                                      *)
(***************************************************************************)

\* units per degree
Unit == 2 ^ 21

NaN == [nan |-> TRUE, v |-> 0]

Num(v) == [nan |-> FALSE, v |-> v]

\* a value read from a query string or from JSON: undefined or null
\* ("none"), a string, a number, or an array
Undefined == [t |-> "none", s |-> <<>>, n |-> NaN]

StrVal(s) == [t |-> "str", s |-> s, n |-> NaN]

NumVal(v) == [t |-> "num", s |-> <<>>, n |-> Num(v)]

ArrVal == [t |-> "arr", s |-> <<>>, n |-> NaN]

\* the truth value of x in a condition and in x || y: undefined, null, the
\* empty string, 0 and NaN are false
Truthy(x) ==
  IF x.t = "none" THEN FALSE
  ELSE IF x.t = "str" THEN x.s # <<>>
  ELSE IF x.t = "num" THEN ~x.n.nan /\ x.n.v # 0
  ELSE TRUE

\* x || y
OrElse(x, y) == IF Truthy(x) THEN x ELSE y

DigitChars == {"0", "1", "2", "3", "4", "5", "6", "7", "8", "9"}

DigitValue(c) ==
  IF c = "0" THEN 0 ELSE IF c = "1" THEN 1 ELSE IF c = "2" THEN 2
  ELSE IF c = "3" THEN 3 ELSE IF c = "4" THEN 4 ELSE IF c = "5" THEN 5
  ELSE IF c = "6" THEN 6 ELSE IF c = "7" THEN 7 ELSE IF c = "8" THEN 8 ELSE 9

\* s.trim(), and the white space parseFloat skips
RECURSIVE TrimLeft(_)
TrimLeft(s) == IF s # <<>> /\ s[1] = " " THEN TrimLeft(Tail(s)) ELSE s

RECURSIVE TrimRight(_)
TrimRight(s) ==
  IF s # <<>> /\ s[Len(s)] = " " THEN TrimRight(SubSeq(s, 1, Len(s) - 1)) ELSE s

Trim(s) == TrimRight(TrimLeft(s))

\* the number of leading digits of s
RECURSIVE DigitRun(_)
DigitRun(s) == IF s # <<>> /\ s[1] \in DigitChars THEN 1 + DigitRun(Tail(s)) ELSE 0

\* the value of a string of digits
RECURSIVE DigitsValue(_)
DigitsValue(ds) ==
  IF ds = <<>> THEN 0
  ELSE 10 * DigitsValue(SubSeq(ds, 1, Len(ds) - 1)) + DigitValue(ds[Len(ds)])

\* parseFloat of a string: white space, a sign, digits, a point and digits;
\* the longest such prefix counts and what follows is ignored; NaN when
\* the prefix has no digit (exponents and Infinity are not modelled)
ParseUnsigned(s) ==
  LET i == DigitRun(s)
      rest == SubSeq(s, i + 1, Len(s))
      f == IF rest # <<>> /\ rest[1] = "." THEN DigitRun(Tail(rest)) ELSE 0
  IN  IF i + f = 0 THEN NaN
      ELSE Num(DigitsValue(SubSeq(s, 1, i)) * Unit
               + (DigitsValue(SubSeq(rest, 2, f + 1)) * Unit) \div (10 ^ f))

ParseFloatStr(s) ==
  LET t == TrimLeft(s)
  IN  IF t # <<>> /\ t[1] = "-"
      THEN (IF ParseUnsigned(Tail(t)).nan THEN NaN ELSE Num(0 - ParseUnsigned(Tail(t)).v))
      ELSE IF t # <<>> /\ t[1] = "+" THEN ParseUnsigned(Tail(t))
      ELSE ParseUnsigned(t)

\* parseFloat(x): a number is converted to its string and parsed back
parseFloat(x) ==
  IF x.t = "str" THEN ParseFloatStr(x.s)
  ELSE IF x.t = "num" THEN x.n
  ELSE NaN

\* the parts of s.split(",")
RECURSIVE Split(_)
Split(s) ==
  IF \E j \in 1..Len(s) : s[j] = ","
  THEN LET k == CHOOSE j \in 1..Len(s) : s[j] = "," /\ \A h \in 1..(j - 1) : s[h] # ","
       IN  <<SubSeq(s, 1, k - 1)>> \o Split(SubSeq(s, k + 1, Len(s)))
  ELSE <<s>>

\* const BASE32 = "0123456789bcdefghjkmnpqrstuvwxyz"
BASE32 == <<"0", "1", "2", "3", "4", "5", "6", "7", "8", "9", "b", "c", "d", "e", "f", "g",
            "h", "j", "k", "m", "n", "p", "q", "r", "s", "t", "u", "v", "w", "x", "y", "z">>

\* BASE32.indexOf(chr), counted from 0; -1 when chr is not in BASE32
IndexOf(chr) ==
  IF \E j \in 1..32 : BASE32[j] = chr
  THEN (CHOOSE j \in 1..32 : BASE32[j] = chr) - 1
  ELSE 0 - 1

\* const DEFAULT_GEOHASH = "6g3ntyecf"
DEFAULT_GEOHASH == <<"6", "g", "3", "n", "t", "y", "e", "c", "f">>

\* the default of the parameter precision of encodeGeohash
DefaultPrecision == 9

\* the while loop of encodeGeohash; b holds latMin, latMax, lonMin, lonMax
RECURSIVE EncodeLoop(_, _, _, _, _, _, _, _)
EncodeLoop(lat, lon, precision, geohash, idx, bit, evenBit, b) ==
  IF Len(geohash) >= precision THEN geohash
  ELSE LET lonMid == (b.lonMin + b.lonMax) \div 2
           latMid == (b.latMin + b.latMax) \div 2
           up == IF evenBit THEN lon >= lonMid ELSE lat >= latMid
           idx1 == IF up THEN idx * 2 + 1 ELSE idx * 2
           b1 == IF evenBit
                 THEN (IF up THEN [b EXCEPT !.lonMin = lonMid] ELSE [b EXCEPT !.lonMax = lonMid])
                 ELSE (IF up THEN [b EXCEPT !.latMin = latMid] ELSE [b EXCEPT !.latMax = latMid])
       IN  IF bit + 1 = 5
           THEN EncodeLoop(lat, lon, precision, Append(geohash, BASE32[idx1 + 1]), 0, 0, ~evenBit, b1)
           ELSE EncodeLoop(lat, lon, precision, geohash, idx1, bit + 1, ~evenBit, b1)

World == [latMin |-> (0 - 90) * Unit, latMax |-> 90 * Unit,
          lonMin |-> (0 - 180) * Unit, lonMax |-> 180 * Unit]

\* encodeGeohash(lat, lon, precision); lat and lon in units
encodeGeohash(lat, lon, precision) == EncodeLoop(lat, lon, precision, <<>>, 0, 0, TRUE, World)

\* the inner loop of decodeGeohash over the bits n = 4..0 of idx
RECURSIVE DecodeBits(_, _, _, _)
DecodeBits(idx, n, evenBit, b) ==
  IF n < 0 THEN [evenBit |-> evenBit, b |-> b]
  ELSE LET bitN == (idx \div (2 ^ n)) % 2
           lonMid == (b.lonMin + b.lonMax) \div 2
           latMid == (b.latMin + b.latMax) \div 2
           b1 == IF evenBit
                 THEN (IF bitN = 1 THEN [b EXCEPT !.lonMin = lonMid] ELSE [b EXCEPT !.lonMax = lonMid])
                 ELSE (IF bitN = 1 THEN [b EXCEPT !.latMin = latMid] ELSE [b EXCEPT !.latMax = latMid])
       IN  DecodeBits(idx, n - 1, ~evenBit, b1)

\* the outer loop of decodeGeohash: characters outside BASE32 are skipped
RECURSIVE DecodeLoop(_, _, _)
DecodeLoop(geohash, evenBit, b) ==
  IF geohash = <<>> THEN b
  ELSE IF IndexOf(geohash[1]) = 0 - 1 THEN DecodeLoop(Tail(geohash), evenBit, b)
  ELSE DecodeLoop(Tail(geohash),
                  DecodeBits(IndexOf(geohash[1]), 4, evenBit, b).evenBit,
                  DecodeBits(IndexOf(geohash[1]), 4, evenBit, b).b)

\* decodeGeohash(geohash) of a string: the centre of the cell
decodeGeohash(geohash) ==
  [lat |-> Num((DecodeLoop(geohash, TRUE, World).latMin
                + DecodeLoop(geohash, TRUE, World).latMax) \div 2),
   lon |-> Num((DecodeLoop(geohash, TRUE, World).lonMin
                + DecodeLoop(geohash, TRUE, World).lonMax) \div 2)]

(***************************************************************************)
(* Request handling: handleSearchCategories, handleSearchProducts,        *)
(* handleSearchFuel and handleSnapshot of search-products/index.ts, from  *)
(* the request to the status of the response.                             *)
(***************************************************************************)

Actions == {"categories", "products", "fuel", "snapshot"}

\* what searchParams.get("lat") and searchParams.get("lon") can return:
\* null or a string
QueryValues ==
  { Undefined,
    StrVal(<<>>),
    StrVal(<<"0">>),
    StrVal(<<"-", "2", "5", ".", "5">>),
    StrVal(<<"9", "1">>),
    StrVal(<<"-", "1", "8", "1">>),
    StrVal(<<"a", "b", "c">>),
    StrVal(<<"1", "2", "a", "b", "c">>) }

\* what body.lat and body.lon of a snapshot request can be: the client
\* (fetchSnapshot) sends numbers; any caller may send strings
BodyValues ==
  { Undefined,
    NumVal(0),
    NumVal((0 - 51) * (Unit \div 2)),
    NumVal(91 * Unit),
    NumVal((0 - 181) * Unit),
    StrVal(<<"-", "2", "5", ".", "5">>),
    StrVal(<<"a", "b", "c">>) }

\* a request: its action, whether its required parameter (termo, tipo,
\* termos) is valid, its coordinates, and whether the cache holds its key
HandlerRequests ==
  [action : Actions \ {"snapshot"}, valid : BOOLEAN, lat : QueryValues, lon : QueryValues,
   cached : BOOLEAN]
  \cup
  [action : {"snapshot"}, valid : BOOLEAN, lat : BodyValues, lon : BodyValues,
   cached : {FALSE}]

\* latitude >= -90 && latitude <= 90 && longitude >= -180 && longitude <= 180
InBounds(latitude, longitude) ==
  /\ latitude.v >= (0 - 90) * Unit /\ latitude.v <= 90 * Unit
  /\ longitude.v >= (0 - 180) * Unit /\ longitude.v <= 180 * Unit

\* let geohash = DEFAULT_GEOHASH; if (lat && lon) { ... }
ResolveGeohash(lat, lon) ==
  IF Truthy(lat) /\ Truthy(lon)
  THEN IF /\ ~parseFloat(lat).nan
          /\ ~parseFloat(lon).nan
          /\ InBounds(parseFloat(lat), parseFloat(lon))
       THEN encodeGeohash(parseFloat(lat).v, parseFloat(lon).v, DefaultPrecision)
       ELSE DEFAULT_GEOHASH
  ELSE DEFAULT_GEOHASH

HandlerInit ==
  /\ hReq \in HandlerRequests
  /\ hPc = "received"
  /\ hGeohash = <<>>
  /\ hUpstream = "none"
  /\ hStatus = 0
  /\ hLimited \in BOOLEAN
  /\ hBody = {}

HandlerIdle ==
  /\ hReq = [action |-> "categories", valid |-> FALSE, lat |-> Undefined, lon |-> Undefined,
             cached |-> FALSE]
  /\ hPc = "received"
  /\ hGeohash = <<>>
  /\ hUpstream = "none"
  /\ hStatus = 0
  /\ hLimited = FALSE
  /\ hBody = {}

\* the fields of the JSON bodies: { error }, { error, message } of the
\* catch of Deno.serve, and the results of a handler
ErrorBody == {"error"}

CaughtBody_NoMessage == {"error"}

CaughtBody == {"error", "message"}

SnapshotBody == {"estabelecimentos", "detalhes"}

DataBody == {"produtos", "resumo"}

\* if (!checkRateLimit(userId)) of Deno.serve: 429 before any handler runs
RateLimited ==
  /\ hPc = "received"
  /\ hLimited
  /\ hPc' = "responded"
  /\ hStatus' = 429
  /\ hBody' = ErrorBody
  /\ UNCHANGED <<hReq, hGeohash, hUpstream, hLimited>>
  /\ HandlerFrame

\* a GET handler up to its call of fetchMenorPrecoAPI: 400 without the
\* required parameter; else the spatial key, the cache key and the cache
\* lookup, answered at once on a hit
GetHandler(a) ==
  /\ hPc = "received"
  /\ ~hLimited
  /\ hReq.action = a
  /\ IF ~hReq.valid
     THEN /\ hPc' = "responded" /\ hStatus' = 400 /\ hBody' = ErrorBody
          /\ UNCHANGED <<hGeohash, hUpstream>>
     ELSE /\ hGeohash' = ResolveGeohash(hReq.lat, hReq.lon)
          /\ IF hReq.cached
             THEN /\ hPc' = "responded" /\ hStatus' = 200 /\ hUpstream' = "cached"
                  /\ hBody' = DataBody
             ELSE hPc' = "fetching" /\ UNCHANGED <<hStatus, hUpstream, hBody>>
  /\ UNCHANGED <<hReq, hLimited>>
  /\ HandlerFrame

handleSearchCategories == GetHandler("categories")

handleSearchProducts == GetHandler("products")

handleSearchFuel == GetHandler("fuel")

\* handleSnapshot up to its calls of fetchMenorPrecoAPI
handleSnapshot ==
  /\ hPc = "received"
  /\ ~hLimited
  /\ hReq.action = "snapshot"
  /\ IF ~hReq.valid
     THEN hPc' = "responded" /\ hStatus' = 400 /\ hBody' = ErrorBody /\ UNCHANGED hGeohash
     ELSE /\ hGeohash' = ResolveGeohash(hReq.lat, hReq.lon) /\ hPc' = "fetching"
          /\ UNCHANGED <<hStatus, hBody>>
  /\ UNCHANGED <<hReq, hUpstream, hLimited>>
  /\ HandlerFrame

\* fetchMenorPrecoAPI returns or throws: a GET handler answers 200, or lets
\* the error reach the catch of Deno.serve, which answers 500; the snapshot
\* catches the error of each term, notes it in the detalhes of the term,
\* and answers 200
UpstreamSettles(o) ==
  /\ hPc = "fetching"
  /\ hUpstream' = o
  /\ hStatus' = IF o = "ok" \/ hReq.action = "snapshot" THEN 200 ELSE 500
  /\ hBody' = IF hReq.action = "snapshot" THEN SnapshotBody
              ELSE IF o = "ok" THEN DataBody ELSE CaughtBody
  /\ hPc' = "responded"
  /\ UNCHANGED <<hReq, hGeohash, hLimited>>
  /\ HandlerFrame

NextHandler ==
  \/ RateLimited
  \/ handleSearchCategories
  \/ handleSearchProducts
  \/ handleSearchFuel
  \/ handleSnapshot
  \/ \E o \in {"ok", "threw"} : UpstreamSettles(o)

(***************************************************************************)
(* Response normalizer: normalizeProduct and extractCoordinates of        *)
(* search-products/index.ts, as far as the coordinates of the record go.  *)
(***************************************************************************)

\* an establishment object without any coordinate field, and {}
EmptyEstab == [latlng |-> Undefined, lat |-> Undefined, latitude |-> Undefined,
               lon |-> Undefined, lng |-> Undefined, longitude |-> Undefined]

\* "-25.5, -49.5"
LatLngText == <<"-", "2", "5", ".", "5", ",", " ", "-", "4", "9", ".", "5">>

\* the establishment objects of the upstream records
Estabs ==
  [latlng : {Undefined, StrVal(LatLngText), StrVal(<<"a", "b", "c">>),
             StrVal(<<"a", ",", "b">>), NumVal(5 * Unit)},
   lat : {Undefined, NumVal(0), NumVal((0 - 51) * (Unit \div 2)),
          StrVal(<<"-", "2", "5", ".", "5">>)},
   latitude : {Undefined, NumVal((0 - 10) * Unit)},
   lon : {Undefined, NumVal(0), NumVal((0 - 99) * (Unit \div 2))},
   lng : {Undefined, NumVal((0 - 50) * Unit)},
   longitude : {Undefined, StrVal(<<"-", "5", "1">>)}]

\* the values of the field local of the upstream records
Locals ==
  {Undefined, StrVal(DEFAULT_GEOHASH), StrVal(<<>>), StrVal(<<"6", "!", "g">>), ArrVal}

\* an upstream record: the establishment object sits under one of three
\* names, or is missing
Products ==
  [estabelecimento : {Some(e) : e \in Estabs}, loja : {Null}, comercio : {Null}, local : Locals]
  \cup
  [estabelecimento : {Null}, loja : {Some(e) : e \in Estabs}, comercio : {Null}, local : Locals]
  \cup
  [estabelecimento : {Null}, loja : {Null}, comercio : {Some(e) : e \in Estabs}, local : Locals]
  \cup
  [estabelecimento : {Null}, loja : {Null}, comercio : {Null}, local : Locals]

\* product.estabelecimento || product.loja || product.comercio || {}
EstabOf(product) ==
  IF product.estabelecimento # Null THEN product.estabelecimento[1]
  ELSE IF product.loja # Null THEN product.loja[1]
  ELSE IF product.comercio # Null THEN product.comercio[1]
  ELSE EmptyEstab

\* estab.latlng.split(",").map(s => s.trim())
LatLngParts(latlng) == [j \in 1..Len(Split(latlng.s)) |-> Trim(Split(latlng.s)[j])]

\* parseFloat(estab.lat || estab.latitude) and
\* parseFloat(estab.lon || estab.lng || estab.longitude), both numbers
Separate(estab) ==
  IF /\ ~parseFloat(OrElse(estab.lat, estab.latitude)).nan
     /\ ~parseFloat(OrElse(OrElse(estab.lon, estab.lng), estab.longitude)).nan
  THEN Some([lat |-> parseFloat(OrElse(estab.lat, estab.latitude)),
             lon |-> parseFloat(OrElse(OrElse(estab.lon, estab.lng), estab.longitude))])
  ELSE Null

\* extractCoordinates(estab)
extractCoordinates(estab) ==
  IF Truthy(estab.latlng) /\ estab.latlng.t = "str" /\ Len(LatLngParts(estab.latlng)) >= 2
  THEN Some([lat |-> ParseFloatStr(LatLngParts(estab.latlng)[1]),
             lon |-> ParseFloatStr(LatLngParts(estab.latlng)[2])])
  ELSE Separate(estab)

\* decodeGeohash(product.local) inside the try: an array has a length and
\* no charAt, so the call throws; a string is decoded
TryDecode(local) ==
  IF local.t = "str" THEN [threw |-> FALSE, coords |-> Some(decodeGeohash(local.s))]
  ELSE IF local.t = "arr" THEN [threw |-> TRUE, coords |-> Null]
  ELSE [threw |-> FALSE, coords |-> Some(decodeGeohash(<<>>))]

\* normalizeProduct(product): whether it raised, and coordenadas
normalizeProduct(product) ==
  IF extractCoordinates(EstabOf(product)) = Null /\ Truthy(product.local)
  THEN [raised |-> FALSE, coordenadas |-> TryDecode(product.local).coords]
  ELSE [raised |-> FALSE, coordenadas |-> extractCoordinates(EstabOf(product))]

NoResult == [raised |-> FALSE, coordenadas |-> Null]

NormInit ==
  /\ nProduct \in Products
  /\ nPc = "input"
  /\ nResult = NoResult

NormIdle ==
  /\ nProduct = [estabelecimento |-> Null, loja |-> Null, comercio |-> Null, local |-> Undefined]
  /\ nPc = "input"
  /\ nResult = NoResult

\* data.produtos.map(normalizeProduct), one record
Normalize ==
  /\ nPc = "input"
  /\ nResult' = normalizeProduct(nProduct)
  /\ nPc' = "done"
  /\ UNCHANGED nProduct
  /\ NormFrame

NextNormalize == Normalize

(***************************************************************************)
(* Scalar fields of a normalized record and the summary of a result list: *)
(* search-products/index.ts, normalizeProduct, calculateTimeAgo and       *)
(* calculateSummary; dashboardService.ts, the prices monitorProductPrices *)
(* keeps.  Prices are numbers in units of 2^-21, times are milliseconds   *)
(* since 2025-11-01T00:00:00Z.                                             *)
(***************************************************************************)
\* the price texts and numbers of the upstream records
PriceValues ==
  {Undefined, NumVal(0), NumVal((0 - 5) * Unit), NumVal(10 * Unit),
   NumVal(25 * (Unit \div 2)), StrVal(<<"1", "2", ",", "5", "0">>), StrVal(<<"8", ".", "5">>),
   StrVal(<<"a", "b", "c">>), StrVal(<<>>)}

\* the timestamp texts of the upstream records
StampHourAgo == <<"2", "0", "2", "5", "-", "1", "1", "-", "0", "5", "T", "0", "8", ":", "3", "0", ":", "0", "0", "Z">>

StampMinutesAgo == <<"2", "0", "2", "5", "-", "1", "1", "-", "0", "5", "T", "0", "9", ":", "4", "5", ":", "3", "0", "Z">>

StampDaysAgo == <<"2", "0", "2", "5", "-", "1", "1", "-", "0", "2", "T", "0", "7", ":", "0", "0", ":", "0", "0", "Z">>

StampAhead == <<"2", "0", "2", "5", "-", "1", "1", "-", "0", "5", "T", "1", "2", ":", "0", "0", ":", "0", "0", "Z">>

StampBroken == <<"o", "n", "t", "e", "m">>

NoStamps ==
  [datahora |-> Undefined, data |-> Undefined, dt_coleta |-> Undefined,
   ultima_atualizacao |-> Undefined, data_atualizacao |-> Undefined]

StampVariants ==
  {NoStamps,
   [NoStamps EXCEPT !.datahora = StrVal(StampHourAgo)],
   [NoStamps EXCEPT !.datahora = StrVal(StampMinutesAgo)],
   [NoStamps EXCEPT !.datahora = StrVal(StampBroken)],
   [NoStamps EXCEPT !.datahora = StrVal(<<>>), !.data = StrVal(StampAhead)],
   [NoStamps EXCEPT !.dt_coleta = StrVal(StampDaysAgo)],
   [NoStamps EXCEPT !.ultima_atualizacao = StrVal(StampBroken)],
   [NoStamps EXCEPT !.data_atualizacao = StrVal(StampDaysAgo)],
   [NoStamps EXCEPT !.datahora = StrVal(StampBroken), !.data = StrVal(StampHourAgo)]}

UpstreamRecord(valor, preco, stamps) ==
  [valor |-> valor, preco |-> preco, datahora |-> stamps.datahora, data |-> stamps.data,
   dt_coleta |-> stamps.dt_coleta, ultima_atualizacao |-> stamps.ultima_atualizacao,
   data_atualizacao |-> stamps.data_atualizacao]

\* the upstream records: every price without a timestamp, and every
\* timestamp with one price
UpstreamRecords ==
  {UpstreamRecord(v, p, NoStamps) : v \in PriceValues, p \in {Undefined, NumVal(7 * Unit)}}
  \cup {UpstreamRecord(NumVal(10 * Unit), Undefined, st) : st \in StampVariants}

\* the readings of Date.now(): 2025-11-05T10:00:00.500Z and 11:29:59.999Z
Clocks == {((4 * 1440 + 600) * 60000) + 500, ((4 * 1440 + 689) * 60000) + 59999}

\* new Date(dateStr).getTime() of a text YYYY-MM-DDThh:mm:ssZ of November
\* 2025; any other text of the records is an invalid date, NaN
IsoShape(s) ==
  /\ Len(s) = 20
  /\ SubSeq(s, 1, 8) = <<"2", "0", "2", "5", "-", "1", "1", "-">>
  /\ s[11] = "T" /\ s[14] = ":" /\ s[17] = ":" /\ s[20] = "Z"
  /\ \A j \in {9, 10, 12, 13, 15, 16, 18, 19} : s[j] \in DigitChars

DateField(s, j) == DigitsValue(SubSeq(s, j, j + 1))

DateParse(x) ==
  IF x.t = "num" THEN x.n
  ELSE IF x.t # "str" THEN NaN
  ELSE IF ~IsoShape(x.s) THEN NaN
  ELSE IF DateField(x.s, 9) \notin 1..30 \/ DateField(x.s, 12) > 23
          \/ DateField(x.s, 15) > 59 \/ DateField(x.s, 18) > 59 THEN NaN
  ELSE Num(((((DateField(x.s, 9) - 1) * 1440) + (DateField(x.s, 12) * 60)
              + DateField(x.s, 15)) * 60000) + (DateField(x.s, 18) * 1000))

\* the labels of calculateTimeAgo: the template, the number and the text
\* put into it
TimeLabel(label, n, text) == [label |-> label, n |-> n, text |-> text]

InvalidDate_Never(d) == FALSE

\* the test of the parsed date in calculateTimeAgo, isNaN(date.getTime())
InvalidDate(d) == d.nan

\* calculateTimeAgo(product), at the clock reading nowMs
calculateTimeAgo(product, nowMs) ==
  LET dateStr == OrElse(OrElse(OrElse(OrElse(product.datahora, product.data),
                                      product.dt_coleta),
                               product.ultima_atualizacao),
                        product.data_atualizacao)
      date == DateParse(dateStr)
      diffMin == (nowMs - date.v) \div 60000
      diffH == diffMin \div 60
      diffD == diffH \div 24
  IN  IF ~Truthy(dateStr) THEN TimeLabel("Tempo nao informado", 0, <<>>)
      ELSE IF InvalidDate(date) THEN TimeLabel("Atualizado em: ${dateStr}", 0, dateStr.s)
      ELSE IF diffMin < 60 THEN TimeLabel("ha ${diffMin} min", diffMin, <<>>)
      ELSE IF diffH < 24 THEN TimeLabel("ha ${diffH} horas", diffH, <<>>)
      ELSE TimeLabel("ha ${diffD} dias", diffD, <<>>)

\* the fields valor and tempo of normalizeProduct(product)
NormalizedRecord(product, nowMs) ==
  [valor |-> parseFloat(OrElse(OrElse(product.valor, product.preco), NumVal(0))),
   tempo |-> calculateTimeAgo(product, nowMs)]

\* Number(x.toFixed(2)) of the fraction num / den of units, in hundredths
ToFixed2(num, den) ==
  LET one == den * Unit
      whole == num \div one
      part == num % one
  IN  (whole * 100) + (((200 * part) + one) \div (2 * one))

\* .filter(v => !isNaN(v) && v > 0) of calculateSummary
Counted(v) == ~v.nan /\ v.v > 0

\* products.map(p => parseFloat(p.valor || 0)).filter(...)
SummaryValores(products) ==
  SelectSeq([j \in 1..Len(products) |->
               parseFloat(OrElse([t |-> "num", s |-> <<>>, n |-> products[j].valor],
                                 NumVal(0)))],
            Counted)

RECURSIVE SumUnits(_)
SumUnits(vs) == IF vs = <<>> THEN 0 ELSE vs[1].v + SumUnits(Tail(vs))

MinUnits(vs) == CHOOSE m \in {vs[j].v : j \in 1..Len(vs)} : \A j \in 1..Len(vs) : m <= vs[j].v

MaxUnits(vs) == CHOOSE m \in {vs[j].v : j \in 1..Len(vs)} : \A j \in 1..Len(vs) : m >= vs[j].v

\* calculateSummary(products); min, max and avg in hundredths, or null
calculateSummary(products) ==
  LET valores == SummaryValores(products)
  IN  IF Len(products) = 0
      THEN [total |-> 0, min |-> Null, max |-> Null, avg |-> Null]
      ELSE IF Len(valores) = 0
      THEN [total |-> Len(products), min |-> Null, max |-> Null, avg |-> Null]
      ELSE [total |-> Len(products),
            min |-> Some(ToFixed2(MinUnits(valores), 1)),
            max |-> Some(ToFixed2(MaxUnits(valores), 1)),
            avg |-> Some(ToFixed2(SumUnits(valores), Len(valores)))]

\* the price of a record as the client reads it from the JSON body:
\* JSON.stringify writes NaN as null
JsonValor(p) == IF p.valor.nan THEN Null ELSE Some(p.valor.v)

\* response.produtos.map(p => p.valor).filter(price => price > 0) of
\* monitorProductPrices, the prices calculateVolatility is given
competitorPrices(produtos) ==
  SelectSeq([j \in 1..Len(produtos) |-> JsonValor(produtos[j])],
            LAMBDA price : price # Null /\ price[1] > 0)

NoResumo == [total |-> 0, min |-> Null, max |-> Null, avg |-> Null]

RecordLists == UNION {[1..n -> UpstreamRecords] : n \in 0..MaxRecords}

ResumoInit ==
  /\ rRecords \in RecordLists
  /\ rNow \in Clocks
  /\ rPc = "input"
  /\ rProdutos = <<>>
  /\ rResumo = NoResumo

ResumoIdle ==
  /\ rRecords = <<>>
  /\ rNow = 0
  /\ rPc = "input"
  /\ rProdutos = <<>>
  /\ rResumo = NoResumo

\* data.produtos.map(normalizeProduct)
NormalizeRecords ==
  /\ rPc = "input"
  /\ rProdutos' = [j \in 1..Len(rRecords) |-> NormalizedRecord(rRecords[j], rNow)]
  /\ rPc' = "normalized"
  /\ UNCHANGED <<rRecords, rNow, rResumo>>
  /\ ResumoFrame

\* resumo: calculateSummary(produtos)
Summarize ==
  /\ rPc = "normalized"
  /\ rResumo' = calculateSummary(rProdutos)
  /\ rPc' = "done"
  /\ UNCHANGED <<rRecords, rNow, rProdutos>>
  /\ ResumoFrame

NextResumo == NormalizeRecords \/ Summarize

(***************************************************************************)
(* Derived metrics of a monitored product: dashboardService.ts,           *)
(* calculateVolatility, determineStatus and calculateTrend, and the       *)
(* database function calculate_product_volatility.  Prices are in         *)
(* hundredths and the quotients are exact fractions; where a quotient     *)
(* lies exactly between two tenths, the rounding of its binary floating   *)
(* point value can go either way, and the model allows both.              *)
(***************************************************************************)
\* own_price of a product: null, or a number of numeric(10,2) that is >= 0
OwnPrices == {Null, Some(0), Some(500), Some(1010), Some(1200), Some(2000)}

\* the competitor prices of a product, all positive
CompetitorPriceValues == {500, 800, 1000, 1099, 1200, 1500}

CompetitorPriceLists == UNION {[1..n -> CompetitorPriceValues] : n \in 0..MaxPrices}

RECURSIVE SumPrices(_)
SumPrices(prices) == IF prices = <<>> THEN 0 ELSE prices[1] + SumPrices(Tail(prices))

MinPrice(prices) ==
  CHOOSE m \in {prices[j] : j \in 1..Len(prices)} : \A j \in 1..Len(prices) : m <= prices[j]

MaxPrice(prices) ==
  CHOOSE m \in {prices[j] : j \in 1..Len(prices)} : \A j \in 1..Len(prices) : m >= prices[j]

\* lowestPrice, highestPrice and avgPrice of monitorProductPrices; avgPrice
\* is kept as the fraction sum / count
highestPrice(prices) == IF prices = <<>> THEN Null ELSE Some(MaxPrice(prices))

avgPrice(prices) ==
  IF prices = <<>> THEN Null ELSE Some([num |-> SumPrices(prices), den |-> Len(prices)])

\* Number(x.toFixed(1)) of the fraction num / den, in tenths: the tenth
\* nearest to |x| with the sign of x, and either neighbour when the
\* fraction lies exactly between two tenths
ToFixed1(num, den) ==
  LET a == IF num < 0 THEN 0 - num ELSE num
      up == ((20 * a) + den) \div (2 * den)
      magnitudes == IF (20 * a) % (2 * den) = den THEN {up - 1, up} ELSE {up}
  IN  {IF num < 0 THEN 0 - t ELSE t : t \in magnitudes}

\* calculateVolatility(prices), in tenths: the values it can return
calculateVolatility(prices) ==
  IF Len(prices) = 0 THEN {0}
  ELSE IF SumPrices(prices) = 0 THEN {0}
  ELSE ToFixed1((MaxPrice(prices) - MinPrice(prices)) * 100 * Len(prices), SumPrices(prices))

\* calculate_product_volatility over the price_history rows the WHERE
\* clause selects: the CASE and the COALESCE; the quotient is not rounded
\* and is kept as a fraction
calculate_product_volatility(prices) ==
  IF prices = <<>> THEN [num |-> 0, den |-> 1]
  ELSE IF SumPrices(prices) > 0
  THEN [num |-> (MaxPrice(prices) - MinPrice(prices)) * 100 * Len(prices),
        den |-> SumPrices(prices)]
  ELSE [num |-> 0, den |-> 1]

\* Math.abs(percentageChange) < 2, percentageChange being 100 * diff / avg
\* with avg > 0
DeadZone_Wide(diff, avg) == (IF diff < 0 THEN 0 - diff ELSE diff) * 100 < 20 * avg

DeadZone(diff, avg) == (IF diff < 0 THEN 0 - diff ELSE diff) * 100 < 2 * avg

\* calculateTrend(ownPrice, avgCompetitorPrice); change in tenths: the
\* values it can return
calculateTrend(own, avg) ==
  IF Falsy(own) \/ avg = Null \/ avg[1].num = 0 THEN {[trend |-> "neutral", change |-> 0]}
  ELSE LET diff == (own[1] * avg[1].den) - avg[1].num
       IN  IF DeadZone(diff, avg[1].num) THEN {[trend |-> "neutral", change |-> 0]}
           ELSE {[trend |-> IF diff > 0 THEN "up" ELSE "down", change |-> c] :
                   c \in ToFixed1(diff * 100, avg[1].num)}

NoMetrics == [volatility |-> 0, status |-> "none", trend |-> "none", change |-> 0]

MetricsInit ==
  /\ mOwn \in OwnPrices
  /\ mPrices \in CompetitorPriceLists
  /\ mHighestKnown \in BOOLEAN
  /\ mPc = "prices"
  /\ mMetrics = NoMetrics
  /\ mDbVolatility = Null

MetricsIdle ==
  /\ mOwn = Null
  /\ mPrices = <<>>
  /\ mHighestKnown = TRUE
  /\ mPc = "prices"
  /\ mMetrics = NoMetrics
  /\ mDbVolatility = Null

\* const volatility = calculateVolatility(competitorPrices)
Volatility ==
  /\ mPc = "prices"
  /\ \E v \in calculateVolatility(mPrices) : mMetrics' = [mMetrics EXCEPT !.volatility = v]
  /\ mPc' = "volatility"
  /\ UNCHANGED <<mOwn, mPrices, mHighestKnown, mDbVolatility>>
  /\ MetricsFrame

\* const status = determineStatus(product.own_price, avgPrice, highestPrice);
\* the third argument may also be given as null
Status ==
  /\ mPc = "volatility"
  /\ mMetrics' = [mMetrics EXCEPT
                    !.status = determineStatus(mOwn, avgPrice(mPrices),
                                               IF mHighestKnown THEN highestPrice(mPrices)
                                               ELSE Null)]
  /\ mPc' = "status"
  /\ UNCHANGED <<mOwn, mPrices, mHighestKnown, mDbVolatility>>
  /\ MetricsFrame

\* const { trend, change } = calculateTrend(product.own_price, avgPrice)
Trend ==
  /\ mPc = "status"
  /\ \E r \in calculateTrend(mOwn, avgPrice(mPrices)) :
       mMetrics' = [mMetrics EXCEPT !.trend = r.trend, !.change = r.change]
  /\ mPc' = "done"
  /\ UNCHANGED <<mOwn, mPrices, mHighestKnown, mDbVolatility>>
  /\ MetricsFrame

\* calculate_product_volatility(prod.id, p_user_id, p_days) over the same
\* prices, stored as price_history rows
DbVolatility ==
  /\ mDbVolatility = Null
  /\ mDbVolatility' = Some(calculate_product_volatility(mPrices))
  /\ UNCHANGED <<mOwn, mPrices, mHighestKnown, mPc, mMetrics>>
  /\ MetricsFrame

NextMetrics == Volatility \/ Status \/ Trend \/ DbVolatility

(***************************************************************************)
(* Dashboard summary builder: the dashboard-data edge function,           *)
(* getDashboardData and the dashboard action of Deno.serve.  Requests of  *)
(* one process interleave at the await of the queries.                    *)
(***************************************************************************)
Queries == {"kpis", "volatile", "competitors", "trends", "insights"}

\* what a query resolves to: { data: rows }, { data: [] } or { error }
QueryOutcomes == {"rows", "empty", "error"}

AllRows == [q \in Queries |-> "rows"]

\* the outcomes of the five queries of one request: all with rows, all
\* empty, or all with rows but one in error
DashOutcomes ==
  {AllRows, [q \in Queries |-> "empty"]}
  \cup {[AllRows EXCEPT ![q] = "error"] : q \in Queries}

\* the queries whose error getDashboardData throws
Thrown == {"kpis", "volatile", "competitors", "trends"}

\* the users: the one whose cache key is the first of a full cache, and one
\* without an entry
DashUsers == {1, DASHBOARD_CACHE_MAX + 1}

\* the result object: what each part holds, lastUpdate, and the request
\* that built it (0 for the entries cached before the run)
Built(outcomes, t, id) ==
  [kpis |-> IF outcomes["kpis"] = "rows" THEN "row" ELSE "zeros",
   volatileProducts |-> IF outcomes["volatile"] = "rows" THEN "rows" ELSE "empty",
   topCompetitors |-> IF outcomes["competitors"] = "rows" THEN "rows" ELSE "empty",
   priceTrends |-> IF outcomes["trends"] = "rows" THEN "rows" ELSE "empty",
   aiInsights |-> IF outcomes["insights"] = "rows" THEN "rows" ELSE "empty",
   lastUpdate |-> t,
   builtBy |-> id]

NoData == Built(AllRows, 0, 0 - 1)

\* the cache after the requests of the users 1..n at time 0
DashPrefilled(n) ==
  [j \in 1..n |-> [key |-> j, data |-> Built(AllRows, 0, 0), timestamp |-> 0]]

\* if (!forceRefresh) of getDashboardData
ReadsCache_Always(forceRefresh) == TRUE

ReadsCache(forceRefresh) == ~forceRefresh

NoResponse == [status |-> 0, cached |-> FALSE, data |-> NoData]

\* a request in flight: its position, its user and flag, its number, the
\* forced result it is awaited to return and whether that entry had been
\* left alone
IdleRequest ==
  [pc |-> "idle", user |-> 0, force |-> FALSE, id |-> 0, expected |-> Null,
   untouched |-> FALSE]

\* the request answered last: the request, the query whose error it threw,
\* and its response
NoAnswer == [req |-> IdleRequest, error |-> "none", resp |-> NoResponse]

Slots == {1, 2}

DashInit ==
  /\ dPrefill \in {0, DASHBOARD_CACHE_MAX}
  /\ dCache = DashPrefilled(dPrefill)
  /\ dNow = 0
  /\ dTicks = 0
  /\ dCount = 0
  /\ dReq = [s \in Slots |-> IdleRequest]
  /\ dLast = NoAnswer
  /\ dAfterForced = [u \in DashUsers |-> Null]
  /\ dUntouched = [u \in DashUsers |-> FALSE]

DashIdle ==
  /\ dPrefill = 0
  /\ dCache = <<>>
  /\ dNow = 0
  /\ dTicks = 0
  /\ dCount = 0
  /\ dReq = [s \in Slots |-> IdleRequest]
  /\ dLast = NoAnswer
  /\ dAfterForced = [u \in DashUsers |-> Null]
  /\ dUntouched = [u \in DashUsers |-> FALSE]

\* the forced result of user u that is still awaited by u's next request
\* without the flag, if that request comes within the TTL
Awaited(u) ==
  IF dAfterForced[u] # Null /\ dNow - dAfterForced[u][1].lastUpdate <= DASHBOARD_CACHE_TTL_MS
  THEN dAfterForced[u] ELSE Null

\* a request ?action=dashboard of user u arrives and takes the first free
\* slot: getDashboardData up to its return of the cached entry or up to the
\* await of Promise.all
DashStart(s, u, force) ==
  /\ dReq[s].pc = "idle"
  /\ \A r \in Slots : r < s => dReq[r].pc = "queries"
  /\ dCount < MaxRequests
  /\ dCount' = dCount + 1
  /\ LET hit == IF ReadsCache(force)
                THEN getFromCacheResult(dCache, u, dNow, DASHBOARD_CACHE_TTL_MS)
                ELSE [hit |-> FALSE, data |-> NoData]
         req == [pc |-> "queries", user |-> u, force |-> force, id |-> dCount',
                 expected |-> IF force THEN Null ELSE Awaited(u),
                 untouched |-> dUntouched[u]]
     IN  /\ dCache' = IF ReadsCache(force)
                      THEN getFromCacheMap(dCache, u, dNow, DASHBOARD_CACHE_TTL_MS)
                      ELSE dCache
         /\ IF hit.hit
            THEN /\ dLast' = [req |-> req, error |-> "none",
                              resp |-> [status |-> 200, cached |-> TRUE, data |-> hit.data]]
                 /\ UNCHANGED dReq
            ELSE /\ dReq' = [dReq EXCEPT ![s] = req]
                 /\ UNCHANGED dLast
         /\ dAfterForced' = IF force THEN dAfterForced ELSE [dAfterForced EXCEPT ![u] = Null]
         /\ dUntouched' = [dUntouched EXCEPT ![u] = @ /\ MapHas(dCache', u)]
  /\ UNCHANGED <<dPrefill, dNow, dTicks>>
  /\ DashFrame

\* Promise.all resolves with the outcomes o: getDashboardData from the
\* tests of the errors to setCache and return, or to the throw that the
\* catch of Deno.serve answers with 500
DashSettle(s, o) ==
  /\ dReq[s].pc = "queries"
  /\ LET req == dReq[s]
         failed == \E q \in Thrown : o[q] = "error"
         first == CHOOSE q \in Thrown : o[q] = "error"
         result == Built(o, dNow, req.id)
     IN  IF failed
         THEN /\ dLast' = [req |-> req, error |-> first,
                           resp |-> [status |-> 500, cached |-> FALSE, data |-> NoData]]
              /\ UNCHANGED <<dCache, dAfterForced, dUntouched>>
         ELSE /\ dCache' = setCache(dCache, req.user, result, dNow, DASHBOARD_CACHE_MAX)
              /\ dLast' = [req |-> req, error |-> "none",
                           resp |-> [status |-> 200, cached |-> FALSE, data |-> result]]
              /\ dAfterForced' = IF req.force THEN [dAfterForced EXCEPT ![req.user] = Some(result)]
                                 ELSE dAfterForced
              /\ dUntouched' = [u \in DashUsers |->
                                  IF u = req.user THEN req.force
                                  ELSE dUntouched[u] /\ MapHas(dCache', u)]
  /\ dReq' = [dReq EXCEPT ![s] = IdleRequest]
  /\ UNCHANGED <<dPrefill, dNow, dTicks, dCount>>
  /\ DashFrame

\* Date.now() advances
DashTick(d) ==
  /\ dTicks < MaxDashTicks
  /\ dNow' = dNow + d
  /\ dTicks' = dTicks + 1
  /\ UNCHANGED <<dPrefill, dCache, dCount, dReq, dLast, dAfterForced, dUntouched>>
  /\ DashFrame

\* clock advances that put an entry written before at its TTL and just past it
DashTickSteps == {DASHBOARD_CACHE_TTL_MS, DASHBOARD_CACHE_TTL_MS + 1}

NextDashboard ==
  \/ \E s \in Slots, u \in DashUsers, force \in BOOLEAN : DashStart(s, u, force)
  \/ \E s \in Slots, o \in DashOutcomes : DashSettle(s, o)
  \/ \E d \in DashTickSteps : DashTick(d)

(***************************************************************************)
(* Competitor registry: saveCompetitorData of src/lib/dashboardService.ts *)
(* as monitorProductPrices calls it, once per product of a pass, the      *)
(* calls of one pass running concurrently and interleaving at every await *)
(* of a database request.                                                  *)
(***************************************************************************)

\* the signed-in user of the browser session and another user of the
\* database
RegUser == 1

OtherUser == 2

\* response.produtos of a product of the pass: the records found (one per
\* product offer, so a competitor can occur in several), an estabelecimento
\* without a nome being written ""
RegLists == {
  <<[nome |-> "A", valor |-> 6]>>,
  <<[nome |-> "A", valor |-> 8], [nome |-> "B", valor |-> 4]>>,
  <<[nome |-> "A", valor |-> 6], [nome |-> "A", valor |-> 9]>>,
  <<[nome |-> "", valor |-> 5], [nome |-> "B", valor |-> 7]>> }

\* rows of the pharmacies table before the first pass (id SERIAL, no
\* unique constraint on (user_id, name))
RegStored == {
  <<>>,
  <<[id |-> 1, user_id |-> RegUser, name |-> "A"]>>,
  <<[id |-> 1, user_id |-> OtherUser, name |-> "A"]>> }

\* outcome of an insert: supabase-js resolves with { data, error }
WriteOutcomes == {"ok", "error"}

\* the first competitor at or after index i that has an estabelecimento
\* nome (the others are skipped by continue); Len + 1 when there is none
RECURSIVE NextNamed(_, _)
NextNamed(list, i) ==
  IF i > Len(list) THEN Len(list) + 1
  ELSE IF list[i].nome # "" THEN i
  ELSE NextNamed(list, i + 1)

\* select id from pharmacies where user_id = u and name = n
MatchingRows(rows, u, n) ==
  {k \in 1..Len(rows) : rows[k].user_id = u /\ rows[k].name = n}

\* .maybeSingle(): the row when exactly one matches; data is null when none
\* matches and also when several match (the error is not read)
maybeSingle(rows, u, n) ==
  IF Cardinality(MatchingRows(rows, u, n)) = 1
  THEN Some(rows[CHOOSE k \in MatchingRows(rows, u, n) : TRUE].id)
  ELSE Null

OnPharmacyError_Return(list, i) == Len(list) + 1

\* if (pharmacyError) continue: the loop goes on with the next competitor
OnPharmacyError(list, i) == NextNamed(list, i + 1)

\* a call of saveCompetitorData that has not started
NotStarted(list) ==
  [pc |-> "start", i |-> 0, pharmacyId |-> Null,
   written |-> [j \in 1..Len(list) |-> "none"]]

RegInit ==
  /\ regUser \in {Null, Some(RegUser)}
  /\ pharmacies \in RegStored
  /\ price_history = EmptyBag
  /\ regProdutos \in [1..MaxSaves -> RegLists]
  /\ save = [p \in 1..MaxSaves |-> NotStarted(regProdutos[p])]
  /\ regResults = [p \in 1..MaxSaves |-> Null]
  /\ regPasses = 1

RegIdle ==
  /\ regUser = Null
  /\ pharmacies = <<>>
  /\ price_history = EmptyBag
  /\ regProdutos = [p \in 1..MaxSaves |-> <<>>]
  /\ save = [p \in 1..MaxSaves |-> NotStarted(<<>>)]
  /\ regResults = [p \in 1..MaxSaves |-> Null]
  /\ regPasses = 0

\* the loop of product p goes on at index j with what it has noted of
\* competitor i; past the last competitor saveCompetitorData returns and
\* the closure of monitorProductPrices returns monitoredProduct
Proceed(p, j, note) ==
  LET i == save[p].i
      w == IF i = 0 THEN save[p].written ELSE [save[p].written EXCEPT ![i] = note]
  IN  IF j > Len(regProdutos[p])
      THEN /\ save' = [save EXCEPT ![p] =
                 [pc |-> "returned", i |-> j, pharmacyId |-> Null, written |-> w]]
           /\ regResults' = [regResults EXCEPT ![p] = Some(Monitored(p, regProdutos[p]))]
      ELSE /\ save' = [save EXCEPT ![p] =
                 [pc |-> "select", i |-> j, pharmacyId |-> Null, written |-> w]]
           /\ UNCHANGED regResults

\* await supabase.auth.getUser(): without a user the call returns at once
SaveStart(p) ==
  /\ regPasses \in 1..MaxPasses
  /\ save[p].pc = "start"
  /\ IF regUser = Null
     THEN Proceed(p, Len(regProdutos[p]) + 1, "none")
     ELSE Proceed(p, NextNamed(regProdutos[p], 1), "none")
  /\ UNCHANGED <<regUser, pharmacies, price_history, regProdutos, regPasses>>
  /\ RegFrame

\* the select of the registry row settles
SelectPharmacy(p) ==
  /\ save[p].pc = "select"
  /\ LET found == maybeSingle(pharmacies, regUser[1], regProdutos[p][save[p].i].nome)
     IN  save' = [save EXCEPT ![p].pc = IF found = Null THEN "insert" ELSE "history",
                              ![p].pharmacyId = found]
  /\ UNCHANGED <<regUser, pharmacies, price_history, regProdutos, regResults, regPasses>>
  /\ RegFrame

\* the insert of the registry row settles
InsertPharmacy(p, o) ==
  /\ save[p].pc = "insert"
  /\ IF o = "ok"
     THEN /\ pharmacies' = Append(pharmacies,
                [id |-> Len(pharmacies) + 1, user_id |-> regUser[1],
                 name |-> regProdutos[p][save[p].i].nome])
          /\ save' = [save EXCEPT ![p].pc = "history",
                                  ![p].pharmacyId = Some(Len(pharmacies) + 1)]
          /\ UNCHANGED regResults
     ELSE /\ Proceed(p, OnPharmacyError(regProdutos[p], save[p].i), "pharmacyError")
          /\ UNCHANGED pharmacies
  /\ UNCHANGED <<regUser, price_history, regProdutos, regPasses>>
  /\ RegFrame

\* the insert of the price observation settles; its result is not read
InsertHistory(p, o) ==
  /\ save[p].pc = "history"
  /\ price_history' =
       IF o = "ok"
       THEN price_history (+) SetToBag({
              [pharmacy_id |-> save[p].pharmacyId[1], product_id |-> p,
               price |-> regProdutos[p][save[p].i].valor]})
       ELSE price_history
  /\ Proceed(p, NextNamed(regProdutos[p], save[p].i + 1),
             IF o = "ok" THEN "saved" ELSE "historyError")
  /\ UNCHANGED <<regUser, pharmacies, regProdutos, regPasses>>
  /\ RegFrame

\* the pass is over (Promise.allSettled) and the next pass over the same
\* products begins
NextPass ==
  /\ regPasses < MaxPasses
  /\ \A p \in 1..MaxSaves : save[p].pc = "returned"
  /\ regPasses' = regPasses + 1
  /\ save' = [p \in 1..MaxSaves |-> NotStarted(regProdutos[p])]
  /\ regResults' = [p \in 1..MaxSaves |-> Null]
  /\ UNCHANGED <<regUser, pharmacies, price_history, regProdutos>>
  /\ RegFrame

NextRegistry ==
  \/ \E p \in 1..MaxSaves : SaveStart(p)
  \/ \E p \in 1..MaxSaves : SelectPharmacy(p)
  \/ \E p \in 1..MaxSaves, o \in WriteOutcomes : InsertPharmacy(p, o)
  \/ \E p \in 1..MaxSaves, o \in WriteOutcomes : InsertHistory(p, o)
  \/ NextPass

(***************************************************************************)
(* Competitor scoring: calculate_competitor_aggressiveness and             *)
(* update_competitor_scores of the dashboard schema migration, run for one *)
(* user over the pharmacies and price_history rows stored for them.       *)
(***************************************************************************)

\* price observations a pharmacy can have stored: product, price, age of
\* collected_at in days, is_available
Observations == <<
  {},
  {[product_id |-> 1, price |-> 8, age |-> 1, is_available |-> TRUE]},
  {[product_id |-> 1, price |-> 12, age |-> 1, is_available |-> TRUE],
   [product_id |-> 1, price |-> 12, age |-> 2, is_available |-> TRUE]},
  {[product_id |-> 1, price |-> 20, age |-> 3, is_available |-> TRUE],
   [product_id |-> 2, price |-> 40, age |-> 45, is_available |-> TRUE]},
  {[product_id |-> 2, price |-> 10, age |-> 1, is_available |-> FALSE],
   [product_id |-> 2, price |-> 0, age |-> 30, is_available |-> TRUE]},
  {[product_id |-> 3, price |-> 8, age |-> a, is_available |-> TRUE] : a \in 1..26} >>

\* the price_history rows of a choice of observations per pharmacy
HistoryOf(obs) ==
  UNION {{[pharmacy_id |-> k, product_id |-> o.product_id, price |-> o.price,
           age |-> o.age, is_available |-> o.is_available] : o \in Observations[obs[k]]}
         : k \in DOMAIN obs}

\* the price_history rows stored for the user's pharmacies
scHistory == HistoryOf(scObserved)

\* collected_at >= NOW() - INTERVAL '30 days'
InWindow(r) == r.age <= 30

\* SUM(price) over a set of rows, price by price
RECURSIVE SumPriceOver(_, _)
SumPriceOver(rows, prices) ==
  IF prices = {} THEN 0
  ELSE LET v == CHOOSE x \in prices : TRUE
       IN  v * Cardinality({r \in rows : r.price = v}) + SumPriceOver(rows, prices \ {v})

SumPrice(rows) == SumPriceOver(rows, {r.price : r \in rows})

\* AVG(price) over a set of rows as sum and count; NULL over no rows
AvgOf(sum, n) == IF n = 0 THEN Null ELSE Some([sum |-> sum, n |-> n])

\* v_avg_price: the pharmacy's available rows of the window
PharmacyRows(h, k) ==
  {r \in h : r.pharmacy_id = k /\ InWindow(r) /\ r.is_available}

v_avg_price(h, k) == AvgOf(SumPrice(PharmacyRows(h, k)), Cardinality(PharmacyRows(h, k)))

\* v_market_avg: AVG(ph2.price) over the join of every row ph1 of the
\* pharmacy with the available rows ph2 of the window that have its product
MarketRows(h, q) ==
  {r2 \in h : r2.product_id = q /\ InWindow(r2) /\ r2.is_available}

\* sum and count of ph2.price over the join, product by product: every row
\* ph1 of a product is joined with every market row of that product
RECURSIVE MarketSum(_, _, _)
MarketSum(h, ph1, products) ==
  IF products = {} THEN [sum |-> 0, n |-> 0]
  ELSE LET q == CHOOSE x \in products : TRUE
           c == Cardinality({r1 \in ph1 : r1.product_id = q})
           rest == MarketSum(h, ph1, products \ {q})
       IN  [sum |-> rest.sum + c * SumPrice(MarketRows(h, q)),
            n |-> rest.n + c * Cardinality(MarketRows(h, q))]

v_market_avg(h, k) ==
  LET ph1 == {r \in h : r.pharmacy_id = k}
      j == MarketSum(h, ph1, {r.product_id : r \in ph1})
  IN  AvgOf(j.sum, j.n)

\* v_price_change_freq: COUNT(DISTINCT DATE(collected_at)) of the
\* pharmacy's rows of the window
v_price_change_freq(h, k) ==
  Cardinality({r.age : r \in {x \in h : x.pharmacy_id = k /\ InWindow(x)}})

PriceAdjusts_CheaperOnly(m, a) ==
  /\ m # Null /\ a # Null
  /\ m[1].sum > 0 /\ a[1].sum > 0
  /\ a[1].sum * m[1].n < m[1].sum * a[1].n

\* IF v_market_avg > 0 AND v_avg_price > 0 (false when either is NULL)
PriceAdjusts(m, a) ==
  /\ m # Null /\ a # Null
  /\ m[1].sum > 0 /\ a[1].sum > 0

\* GREATEST(0, LEAST(100, v_score)) of the fraction num / den
ClampScore(num, den) ==
  IF num < 0 THEN [num |-> 0, den |-> 1]
  ELSE IF num > 100 * den THEN [num |-> 100, den |-> 1]
  ELSE [num |-> num, den |-> den]

\* calculate_competitor_aggressiveness(p_pharmacy_id, p_user_id), as the
\* fraction num / den
calculate_competitor_aggressiveness(h, k) ==
  LET a == v_avg_price(h, k)
      m == v_market_avg(h, k)
      d == v_price_change_freq(h, k)
  IN  IF PriceAdjusts(m, a)
      THEN LET den == m[1].sum * a[1].n
           IN  ClampScore(50 * den + 30 * (den - a[1].sum * m[1].n) + 2 * d * den, den)
      ELSE ClampScore(50 + 2 * d, 1)

\* a NUMERIC stored in agression_score NUMERIC(5, 2), in hundredths
StoredScore(s) ==
  (s.num \div s.den) * 100 + (200 * (s.num % s.den) + s.den) \div (2 * s.den)

\* the pharmacies of the user that are competitors
Competitors(ph) == {k \in DOMAIN ph : ~ph[k].is_own_pharmacy}

\* ROW_NUMBER() OVER (ORDER BY agression_score DESC): every numbering 1..n
\* of the competitors that follows the order of the scores; rows of equal
\* score are numbered in an order SQL leaves open
RowNumbers(ph) ==
  {f \in [Competitors(ph) -> 1..Cardinality(Competitors(ph))] :
     /\ \A a, b \in Competitors(ph) : a # b => f[a] # f[b]
     /\ \A a, b \in Competitors(ph) :
          ph[a].agression_score > ph[b].agression_score => f[a] < f[b]}

\* a pharmacies row as inserted: agression_score DEFAULT 0, no rank
NewPharmacy(own) ==
  [is_own_pharmacy |-> own, agression_score |-> 0, competitiveness_rank |-> Null]

ScoreInit ==
  /\ scObserved \in [1..MaxPharmacies -> 1..Len(Observations)]
  /\ \E own \in BOOLEAN :
       scPharmacies = [k \in 1..MaxPharmacies |-> NewPharmacy(own /\ k = 1)]
  /\ scReturned = [k \in 1..MaxPharmacies |-> Null]
  /\ scPrevRank = [k \in 1..MaxPharmacies |-> Null]
  /\ scPasses = 0

ScoreIdle ==
  /\ scObserved = [k \in 1..MaxPharmacies |-> 1]
  /\ scPharmacies = [k \in 1..MaxPharmacies |-> NewPharmacy(FALSE)]
  /\ scReturned = [k \in 1..MaxPharmacies |-> Null]
  /\ scPrevRank = [k \in 1..MaxPharmacies |-> Null]
  /\ scPasses = 0

\* update_competitor_scores(p_user_id): the loop stores the score of every
\* competitor, then the ranks are rewritten from the stored scores
update_competitor_scores ==
  /\ scPasses < MaxScorePasses
  /\ LET scored == [k \in 1..MaxPharmacies |->
                      IF scPharmacies[k].is_own_pharmacy THEN scPharmacies[k]
                      ELSE [scPharmacies[k] EXCEPT !.agression_score =
                              StoredScore(calculate_competitor_aggressiveness(scHistory, k))]]
     IN  \E f \in RowNumbers(scored) :
           scPharmacies' = [k \in 1..MaxPharmacies |->
                              IF scored[k].is_own_pharmacy THEN scored[k]
                              ELSE [scored[k] EXCEPT !.competitiveness_rank = Some(f[k])]]
  /\ scReturned' = [k \in 1..MaxPharmacies |->
                      IF scPharmacies[k].is_own_pharmacy THEN Null
                      ELSE Some(calculate_competitor_aggressiveness(scHistory, k))]
  /\ scPrevRank' = [k \in 1..MaxPharmacies |-> scPharmacies[k].competitiveness_rank]
  /\ scPasses' = scPasses + 1
  /\ UNCHANGED scObserved
  /\ ScoreFrame

NextScoring == update_competitor_scores

(***************************************************************************)
(* Monitoring hook: usePriceMonitor of src/hooks/usePriceMonitor.ts with  *)
(* getLocationCoordinates of src/lib/dashboardService.ts. A call of       *)
(* fetchPrices runs up to an await and goes on when the promise settles.  *)
(***************************************************************************)

\* what getActiveProfile can resolve with: no profile, or the active
\* profile with its location kind, the joined city row, the saved
\* coordinates and the number of its products
ActiveProfiles ==
  {Null} \cup
  {Some([location_type |-> t, selected_city |-> c, saved_latitude |-> la,
         saved_longitude |-> lo, products |-> n]) :
     t \in {"auto", "city", "cep"},
     c \in {Null, Some([latitude |-> -25, longitude |-> -49])},
     la \in {Null, Some(-23)}, lo \in {Null, Some(-51)},
     n \in {0, 2}}

\* getLocationCoordinates(profile)
getLocationCoordinates(profile) ==
  IF profile.location_type = "city" /\ profile.selected_city # Null
  THEN Some([lat |-> profile.selected_city[1].latitude,
             lon |-> profile.selected_city[1].longitude])
  ELSE IF /\ profile.location_type = "auto"
          /\ ~Falsy(profile.saved_latitude) /\ ~Falsy(profile.saved_longitude)
  THEN Some([lat |-> profile.saved_latitude[1], lon |-> profile.saved_longitude[1]])
  ELSE Null

\* the message of the Error thrown when there are no coordinates
CoordinatesError(profile) ==
  IF profile.location_type = "auto" THEN "Localizacao nao configurada"
  ELSE "Coordenadas da cidade nao disponiveis"

AlreadyMonitoring_Never(ref) == FALSE

\* if (isMonitoringRef.current) return
AlreadyMonitoring(ref) == ref

\* a call of fetchPrices that is not running
NoCall == [pc |-> "idle", isAutoRefresh |-> FALSE, profile |-> Null]

HookInit ==
  /\ hkActive \in ActiveProfiles
  /\ isMonitoringRef = FALSE
  /\ hkState = [profile |-> Null, products |-> 0, loading |-> TRUE,
                error |-> Null, lastUpdate |-> FALSE, isAutoRefreshing |-> FALSE]
  /\ hkCalls = [c \in 1..MaxCalls |-> NoCall]
  /\ hkMade = 0
  /\ hkSkipped = 0
  /\ hkExited = 0

HookIdle ==
  /\ hkActive = Null
  /\ isMonitoringRef = FALSE
  /\ hkState = [profile |-> Null, products |-> 0, loading |-> TRUE,
                error |-> Null, lastUpdate |-> FALSE, isAutoRefreshing |-> FALSE]
  /\ hkCalls = [c \in 1..MaxCalls |-> NoCall]
  /\ hkMade = 0
  /\ hkSkipped = 0
  /\ hkExited = 0

\* the interval of the auto-refresh effect exists while the state has a
\* profile, is not loading and has no error
IntervalArmed ==
  hkState.profile # Null /\ ~hkState.loading /\ hkState.error = Null

\* fetchPrices(isAutoRefresh) is called: by the mount effect or refresh()
\* with false, by the interval with true
fetchPrices(isAutoRefresh) ==
  /\ hkMade < MaxCalls
  /\ isAutoRefresh => IntervalArmed
  /\ hkMade' = hkMade + 1
  /\ IF AlreadyMonitoring(isMonitoringRef)
     THEN /\ hkSkipped' = hkSkipped + 1
          /\ UNCHANGED <<isMonitoringRef, hkState, hkCalls>>
     ELSE /\ isMonitoringRef' = TRUE
          /\ hkState' = [hkState EXCEPT !.loading = ~isAutoRefresh,
                                        !.isAutoRefreshing = isAutoRefresh,
                                        !.error = Null]
          /\ hkCalls' = [hkCalls EXCEPT ![hkMade + 1] =
                           [pc |-> "getActiveProfile", isAutoRefresh |-> isAutoRefresh,
                            profile |-> Null]]
          /\ UNCHANGED hkSkipped
  /\ UNCHANGED <<hkActive, hkExited>>
  /\ HookFrame

\* the catch block and finally
Caught(c, message) ==
  /\ hkState' = [hkState EXCEPT !.loading = FALSE, !.error = Some(message),
                                !.isAutoRefreshing = FALSE]
  /\ isMonitoringRef' = FALSE
  /\ hkCalls' = [hkCalls EXCEPT ![c] = NoCall]
  /\ hkExited' = hkExited + 1

\* await getActiveProfile() settles: it throws, or resolves with no
\* profile, a profile without products, or a profile to monitor
ActiveProfileSettles(c, o) ==
  /\ hkCalls[c].pc = "getActiveProfile"
  /\ IF o = "threw"
     THEN Caught(c, "Failed to load products data")
     ELSE IF hkActive = Null \/ hkActive[1].products = 0
     THEN /\ hkState' = [profile |-> hkActive, products |-> 0, loading |-> FALSE,
                         error |-> Null, lastUpdate |-> hkActive # Null,
                         isAutoRefreshing |-> FALSE]
          /\ isMonitoringRef' = FALSE
          /\ hkCalls' = [hkCalls EXCEPT ![c] = NoCall]
          /\ hkExited' = hkExited + 1
     ELSE /\ hkCalls' = [hkCalls EXCEPT ![c].pc = "getLocationCoordinates",
                                        ![c].profile = hkActive]
          /\ UNCHANGED <<isMonitoringRef, hkState, hkExited>>
  /\ UNCHANGED <<hkActive, hkMade, hkSkipped>>
  /\ HookFrame

\* await getLocationCoordinates(profile) settles: without coordinates the
\* call throws, otherwise it calls monitorProductPrices
CoordinatesSettle(c) ==
  /\ hkCalls[c].pc = "getLocationCoordinates"
  /\ IF getLocationCoordinates(hkCalls[c].profile[1]) = Null
     THEN Caught(c, CoordinatesError(hkCalls[c].profile[1]))
     ELSE /\ hkCalls' = [hkCalls EXCEPT ![c].pc = "monitorProductPrices"]
          /\ UNCHANGED <<isMonitoringRef, hkState, hkExited>>
  /\ UNCHANGED <<hkActive, hkMade, hkSkipped>>
  /\ HookFrame

\* await monitorProductPrices(profile, coordinates) settles
MonitorSettles(c) ==
  /\ hkCalls[c].pc = "monitorProductPrices"
  /\ hkState' = [profile |-> hkCalls[c].profile,
                 products |-> hkCalls[c].profile[1].products, loading |-> FALSE,
                 error |-> Null, lastUpdate |-> TRUE, isAutoRefreshing |-> FALSE]
  /\ isMonitoringRef' = FALSE
  /\ hkCalls' = [hkCalls EXCEPT ![c] = NoCall]
  /\ hkExited' = hkExited + 1
  /\ UNCHANGED <<hkActive, hkMade, hkSkipped>>
  /\ HookFrame

NextHook ==
  \/ \E a \in BOOLEAN : fetchPrices(a)
  \/ \E c \in 1..MaxCalls, o \in {"resolved", "threw"} : ActiveProfileSettles(c, o)
  \/ \E c \in 1..MaxCalls : CoordinatesSettle(c)
  \/ \E c \in 1..MaxCalls : MonitorSettles(c)

(***************************************************************************)
(* Search radius: the raio each handler of the search-products function   *)
(* puts in the upstream request.                                           *)
(***************************************************************************)

\* the JSON value null, which a destructuring default does not replace
JsonNull == [t |-> "null", s |-> <<>>, n |-> NaN]

\* searchParams.get("raio") of a GET request: null when absent
RaioQueries == {
  Null, Some(<<>>), Some(<<"a", "b", "c">>), Some(<<"0">>), Some(<<"-", "5">>),
  Some(<<"1">>), Some(<<"3">>), Some(<<"5", "0">>), Some(<<"5", "1">>),
  Some(<<"1", "0", "0">>), Some(<<"2", ".", "7">>), Some(<<"1", "2", "k", "m">>),
  Some(<<" ", "7">>), Some(<<"+", "5">>), Some(<<"1", "e", "3">>), Some(<<",", "5">>) }

\* body.raio of a snapshot request
RaioBodies == {
  Undefined, JsonNull, NumVal(0), NumVal((0 - 5) * Unit), NumVal(Unit), NumVal(3 * Unit),
  NumVal(50 * Unit), NumVal(51 * Unit), NumVal(100 * Unit), NumVal((5 * Unit) \div 2),
  StrVal(<<"a", "b", "c">>), StrVal(<<"1", "0">>) }

\* parseInt(s): white space, a sign and digits; what follows the digits is
\* ignored; NaN without a digit (radix prefixes are not modelled)
parseInt(s) ==
  LET t == TrimLeft(s)
      neg == t # <<>> /\ t[1] = "-"
      u == IF t # <<>> /\ t[1] \in {"-", "+"} THEN Tail(t) ELSE t
      i == DigitRun(u)
  IN  IF i = 0 THEN NaN
      ELSE Num((IF neg THEN -1 ELSE 1) * DigitsValue(SubSeq(u, 1, i)) * Unit)

\* Math.max(a, b) and Math.min(a, b): NaN when an argument is NaN
MathMax(a, b) == IF a.nan \/ b.nan THEN NaN ELSE IF a.v >= b.v THEN a ELSE b

MathMin(a, b) == IF a.nan \/ b.nan THEN NaN ELSE IF a.v <= b.v THEN a ELSE b

\* Math.min(50, Math.max(1, parseInt(searchParams.get("raio") || "3")))
ClampedRaio(q) ==
  MathMin(Num(50 * Unit),
          MathMax(Num(Unit), parseInt(IF q = Null \/ q[1] = <<>> THEN <<"3">> ELSE q[1])))

\* const { termos, raio = 3, lat, lon } = body
BodyRaio(b) == IF b = Undefined THEN NumVal(3 * Unit) ELSE b

RadiusInit ==
  /\ rdAction \in {"categories", "products", "fuel", "snapshot"}
  /\ rdQuery \in RaioQueries
  /\ rdBody \in RaioBodies
  /\ rdAction = "snapshot" => rdQuery = Null
  /\ rdAction # "snapshot" => rdBody = Undefined
  /\ rdSent = Null

RadiusIdle ==
  /\ rdAction = "categories"
  /\ rdQuery = Null
  /\ rdBody = Undefined
  /\ rdSent = Null

\* handleSearchCategories, handleSearchProducts and handleSearchFuel build
\* the endpoint with &raio=${raio}
SendQueryRadius ==
  /\ rdAction # "snapshot"
  /\ rdSent = Null
  /\ rdSent' = Some([t |-> "num", s |-> <<>>, n |-> ClampedRaio(rdQuery)])
  /\ UNCHANGED <<rdAction, rdQuery, rdBody>>
  /\ RadiusFrame

\* handleSnapshot builds the endpoint of each term with &raio=${raio}
SendSnapshotRadius ==
  /\ rdAction = "snapshot"
  /\ rdSent = Null
  /\ rdSent' = Some(BodyRaio(rdBody))
  /\ UNCHANGED <<rdAction, rdQuery, rdBody>>
  /\ RadiusFrame

NextRadius ==
  \/ SendQueryRadius
  \/ SendSnapshotRadius

(***************************************************************************)
(* Dashboard content: what getDashboardData of the dashboard-data edge    *)
(* function puts in aiInsights and topCompetitors, for one user whose     *)
(* queries all succeed (failing queries and concurrent requests are in    *)
(* the dashboard component above), and what sanitizeDashboardData of      *)
(* src/lib/dashboardService.ts makes of the competitors.                   *)
(***************************************************************************)

\* pharmacies.agression_score NUMERIC(5, 2) of a competitor, in hundredths:
\* NULL, the default 0, or a computed score
StoredScores == {Null, Some(0), Some(4250), Some(10000)}

\* the competitors of the user with prices of the last 7 days
CompetitorIds(scores) == DOMAIN scores

\* COALESCE(p.agression_score, 0) as aggressiveness_score
ReturnedScore(s) == IF s = Null THEN 0 ELSE s[1]

\* a row of get_top_competitors (of its columns the id and the score)
TopRow(scores, id) ==
  [pharmacy_id |-> id, aggressiveness_score |-> ReturnedScore(scores[id])]

\* get_top_competitors: the rows ORDER BY aggressiveness_score DESC, rows of
\* one score in any order
get_top_competitors(scores) ==
  {rows \in [1..Len(scores) -> {TopRow(scores, id) : id \in CompetitorIds(scores)}] :
     /\ \A i, j \in 1..Len(scores) : i # j => rows[i].pharmacy_id # rows[j].pharmacy_id
     /\ \A i, j \in 1..Len(scores) :
          i < j => rows[i].aggressiveness_score >= rows[j].aggressiveness_score}

\* c.f of a JavaScript object: undefined (Null) when the object has no f
Field(c, f) == IF f \in DOMAIN c THEN Some(c[f]) ELSE Null

\* x ?? d
Coalesce(x, d) == IF x = Null THEN d ELSE x[1]

\* { ...c, aggressiveness_score: c.agression_score ?? 0 } of getDashboardData
sanitizedCompetitor(c) ==
  [f \in DOMAIN c \cup {"aggressiveness_score"} |->
     IF f = "aggressiveness_score" THEN Coalesce(Field(c, "agression_score"), 0)
     ELSE c[f]]

\* the object sanitizeDashboardData maps a competitor to
sanitizeCompetitor(c) ==
  [pharmacy_id |-> c.pharmacy_id,
   aggressiveness_score |-> Coalesce(Field(c, "agression_score"), 0)]

\* the active insights of the user: the rows 1..n of ai_insights
InsightRows(n) == 1..n

\* the result object of getDashboardData (of its parts the competitors,
\* the insights and lastUpdate)
ContentResult(rows, n, t) ==
  [topCompetitors |-> [i \in 1..Len(rows) |-> sanitizedCompetitor(rows[i])],
   aiInsights |-> InsightRows(n),
   lastUpdate |-> t]

\* cacheKey = `dashboard_${userId}` of the one user
ContentKey == 1

\* the response of a read: whether it came from the cache, the body, the
\* competitors after sanitizeDashboardData, and the insights and the rows
\* of get_top_competitors stored when the request was served
ContentResponse(cached, data, n, rows) ==
  [cached |-> cached,
   force |-> FALSE,
   data |-> data,
   client |-> [i \in 1..Len(data.topCompetitors) |->
                 sanitizeCompetitor(data.topCompetitors[i])],
   insightsStored |-> InsightRows(n),
   rowsStored |-> rows]

ContentInit ==
  /\ ctInsights = 0
  /\ \E n \in 1..MaxCompetitors : ctScores \in [1..n -> StoredScores]
  /\ ctCache = <<>>
  /\ ctNow = 0
  /\ ctTicks = 0
  /\ ctReads = 0
  /\ ctResp = Null

ContentIdle ==
  /\ ctInsights = 0
  /\ ctScores = <<Some(0)>>
  /\ ctCache = <<>>
  /\ ctNow = 0
  /\ ctTicks = 0
  /\ ctReads = 0
  /\ ctResp = Null

\* generateAIInsights inserts an insight of the user with is_active true
InsightStored ==
  /\ ctInsights < MaxInsights
  /\ ctInsights' = ctInsights + 1
  /\ UNCHANGED <<ctScores, ctCache, ctNow, ctTicks, ctReads, ctResp>>
  /\ ContentFrame

\* GET ?action=dashboard with or without refresh=true: getDashboardData
\* and, in the browser, sanitizeDashboardData
DashboardRead(forceRefresh) ==
  /\ ctReads < MaxReads
  /\ ctReads' = ctReads + 1
  /\ LET hit == IF ReadsCache(forceRefresh)
                THEN getFromCacheResult(ctCache, ContentKey, ctNow, DASHBOARD_CACHE_TTL_MS)
                ELSE Miss
     IN  IF hit.hit
         THEN /\ \E rows \in get_top_competitors(ctScores) :
                   ctResp' = Some([ContentResponse(TRUE, hit.data, ctInsights, rows)
                                     EXCEPT !.force = forceRefresh])
              /\ ctCache' = ctCache
         ELSE \E rows \in get_top_competitors(ctScores) :
                LET result == ContentResult(rows, ctInsights, ctNow)
                    read == IF ReadsCache(forceRefresh)
                            THEN getFromCacheMap(ctCache, ContentKey, ctNow,
                                                 DASHBOARD_CACHE_TTL_MS)
                            ELSE ctCache
                IN  /\ ctCache' = setCache(read, ContentKey, result, ctNow,
                                           DASHBOARD_CACHE_MAX)
                    /\ ctResp' = Some([ContentResponse(FALSE, result, ctInsights, rows)
                                         EXCEPT !.force = forceRefresh])
  /\ UNCHANGED <<ctInsights, ctScores, ctNow, ctTicks>>
  /\ ContentFrame

\* Date.now() advances
ContentTick(d) ==
  /\ ctTicks < MaxContentTicks
  /\ ctNow' = ctNow + d
  /\ ctTicks' = ctTicks + 1
  /\ UNCHANGED <<ctInsights, ctScores, ctCache, ctReads, ctResp>>
  /\ ContentFrame

NextContent ==
  \/ InsightStored
  \/ \E forceRefresh \in BOOLEAN : DashboardRead(forceRefresh)
  \/ \E d \in DashTickSteps : ContentTick(d)

(***************************************************************************)
(* Search cache: handleSearchCategories, handleSearchProducts and         *)
(* handleSearchFuel of search-products/index.ts with the cache key, the   *)
(* upstream endpoint and the cache, for requests within the rate limit    *)
(* that carry no raio, lat or lon and are served one after the other.     *)
(* Strings are sequences of characters.                                    *)
(***************************************************************************)

\* the literal texts of the keys and of the endpoints
S_action == <<"a", "c", "t", "i", "o", "n">>

S_termo == <<"t", "e", "r", "m", "o">>

S_categoria == <<"c", "a", "t", "e", "g", "o", "r", "i", "a">>

S_raio == <<"r", "a", "i", "o">>

S_ordem == <<"o", "r", "d", "e", "m">>

S_geohash == <<"g", "e", "o", "h", "a", "s", "h">>

S_tipo == <<"t", "i", "p", "o">>

S_categories == <<"c", "a", "t", "e", "g", "o", "r", "i", "e", "s">>

S_products == <<"p", "r", "o", "d", "u", "c", "t", "s">>

S_fuel == <<"f", "u", "e", "l">>

S_null == <<"n", "u", "l", "l">>

S_NaN == <<"N", "a", "N">>

S_distancia == <<"d", "i", "s", "t", "a", "n", "c", "i", "a">>

\* the letters in the order localeCompare gives them
Letters == <<"a", "b", "c", "d", "e", "f", "g", "h", "i", "j", "k", "l", "m", "n", "o", "p", "q", "r", "s", "t", "u", "v", "w", "x", "y", "z">>

LetterRank(c) == CHOOSE i \in 1..Len(Letters) : Letters[i] = c

\* a.localeCompare(b) < 0 of two words of lower-case letters
RECURSIVE LocaleBefore(_, _)
LocaleBefore(a, b) ==
  IF b = <<>> THEN FALSE
  ELSE IF a = <<>> THEN TRUE
  ELSE IF a[1] = b[1] THEN LocaleBefore(Tail(a), Tail(b))
  ELSE LetterRank(a[1]) < LetterRank(b[1])

\* the decimal digits of a natural number
RECURSIVE NaturalText(_)
NaturalText(n) ==
  IF n < 10 THEN <<BASE32[n + 1]>> ELSE NaturalText(n \div 10) \o <<BASE32[(n % 10) + 1]>>

\* `${v}` of a template literal: null gives "null", a string itself, a
\* number its digits or "NaN"
TemplateText(v) ==
  IF v = Null THEN S_null
  ELSE IF DOMAIN v[1] = {"nan", "v"}
       THEN (IF v[1].nan THEN S_NaN ELSE NaturalText(v[1].v \div Unit))
       ELSE v[1]

\* .sort(([a], [b]) => a.localeCompare(b)) of entries with distinct keys
SortedEntries(entries) ==
  [i \in 1..Len(entries) |->
     entries[CHOOSE j \in 1..Len(entries) :
               Cardinality({k \in 1..Len(entries) :
                              LocaleBefore(entries[k][1], entries[j][1])}) = i - 1]]

\* .join("|")
RECURSIVE JoinBar(_)
JoinBar(parts) ==
  IF parts = <<>> THEN <<>>
  ELSE IF Len(parts) = 1 THEN parts[1]
  ELSE parts[1] \o <<"|">> \o JoinBar(Tail(parts))

\* getCacheKey(params): params as Object.entries gives them
getCacheKey(params) ==
  LET sorted == SortedEntries(params)
  IN  JoinBar([i \in 1..Len(params) |->
                 sorted[i][1] \o <<":">> \o TemplateText(sorted[i][2])])

\* encodeURIComponent of a character (the requests hold letters, digits,
\* '|' and ':')
EncodeChar(c) ==
  IF c = "|" THEN <<"%", "7", "C">>
  ELSE IF c = ":" THEN <<"%", "3", "A">>
  ELSE <<c>>

RECURSIVE encodeURIComponent(_)
encodeURIComponent(s) ==
  IF s = <<>> THEN <<>> ELSE EncodeChar(s[1]) \o encodeURIComponent(Tail(s))

\* a GET request: its action and its termo, categoria, ordem and tipo
\* parameters, Null when absent
SearchRequest(action, termo, categoria, ordem, tipo) ==
  [action |-> action, termo |-> termo, categoria |-> categoria, ordem |-> ordem,
   tipo |-> tipo]

CategoriesOfX == SearchRequest("categories", Some(<<"x">>), Null, Null, Null)

CategoriesNoTermo == SearchRequest("categories", Null, Null, Null, Null)

ProductsOfX == SearchRequest("products", Some(<<"x">>), Null, Null, Null)

ProductsOfXNull == SearchRequest("products", Some(<<"x">>), Some(S_null), Null, Null)

ProductsOfX7 == SearchRequest("products", Some(<<"x">>), Some(<<"7">>), Null, Null)

ProductsOfXByDistance ==
  SearchRequest("products", Some(<<"x">>), Null, Some(S_distancia), Null)

\* termo=x|geohash:6g3ntyecf|ordem:0|raio:3|termo:y with categoria=c
ProductsLongTermo ==
  SearchRequest("products", Some(<<"x", "|", "g", "e", "o", "h", "a", "s", "h", ":", "6", "g", "3", "n", "t", "y", "e", "c", "f", "|", "o", "r", "d", "e", "m", ":", "0", "|", "r", "a", "i", "o", ":", "3", "|", "t", "e", "r", "m", "o", ":", "y">>),
                Some(<<"c">>), Null, Null)

\* categoria=c|geohash:6g3ntyecf|ordem:0|raio:3|termo:x with termo=y
ProductsLongCategoria ==
  SearchRequest("products", Some(<<"y">>),
                Some(<<"c", "|", "g", "e", "o", "h", "a", "s", "h", ":", "6", "g", "3", "n", "t", "y", "e", "c", "f", "|", "o", "r", "d", "e", "m", ":", "0", "|", "r", "a", "i", "o", ":", "3", "|", "t", "e", "r", "m", "o", ":", "x">>), Null, Null)

FuelOf1 == SearchRequest("fuel", Null, Null, Null, Some(<<"1">>))

FuelOf9 == SearchRequest("fuel", Null, Null, Null, Some(<<"9">>))

SearchRequests ==
  {CategoriesOfX, CategoriesNoTermo, ProductsOfX, ProductsOfXNull, ProductsOfX7,
   ProductsOfXByDistance, ProductsLongTermo, ProductsLongCategoria, FuelOf1, FuelOf9}

\* a string is falsy when null or empty
FalsyText(s) == s = Null \/ s[1] = <<>>

\* the 400 answers: if (!termo), if (!tipo || !["1","2","3","4"].includes(tipo))
Invalid(r) ==
  IF r.action = "fuel"
  THEN FalsyText(r.tipo) \/ r.tipo[1] \notin {<<"1">>, <<"2">>, <<"3">>, <<"4">>}
  ELSE FalsyText(r.termo)

\* raio of a request without the parameter
SearchRaio == Some(ClampedRaio(Null))

\* searchParams.get("ordem") === "distancia" ? "1" : "0"
SearchOrdem(r) == IF r.ordem = Some(S_distancia) THEN <<"1">> ELSE <<"0">>

\* the cacheKey of the three handlers
SearchKey(r) ==
  IF r.action = "categories"
  THEN getCacheKey(<<
         <<S_action, Some(S_categories)>>, <<S_termo, r.termo>>, <<S_raio, SearchRaio>>,
         <<S_geohash, Some(DEFAULT_GEOHASH)>> >>)
  ELSE IF r.action = "products"
  THEN getCacheKey(<<
         <<S_action, Some(S_products)>>, <<S_termo, r.termo>>,
         <<S_categoria, r.categoria>>, <<S_raio, SearchRaio>>,
         <<S_ordem, Some(SearchOrdem(r))>>, <<S_geohash, Some(DEFAULT_GEOHASH)>> >>)
  ELSE getCacheKey(<<
         <<S_action, Some(S_fuel)>>, <<S_tipo, r.tipo>>, <<S_raio, SearchRaio>>,
         <<S_geohash, Some(DEFAULT_GEOHASH)>> >>)

\* the endpoint of the three handlers
SearchEndpoint(r) ==
  IF r.action = "categories"
  THEN <<"/", "p", "r", "o", "d", "u", "t", "o", "s", "?", "l", "o", "c", "a", "l", "=">> \o DEFAULT_GEOHASH \o <<"&", "t", "e", "r", "m", "o", "=">> \o encodeURIComponent(r.termo[1])
       \o <<"&", "o", "f", "f", "s", "e", "t", "=", "0", "&", "r", "a", "i", "o", "=">> \o TemplateText(SearchRaio) \o <<"&", "d", "a", "t", "a", "=", "-", "1", "&", "o", "r", "d", "e", "m", "=", "0">>
  ELSE IF r.action = "products"
  THEN <<"/", "p", "r", "o", "d", "u", "t", "o", "s", "?", "l", "o", "c", "a", "l", "=">> \o DEFAULT_GEOHASH \o <<"&", "t", "e", "r", "m", "o", "=">> \o encodeURIComponent(r.termo[1])
       \o (IF FalsyText(r.categoria) THEN <<>> ELSE <<"&", "c", "a", "t", "e", "g", "o", "r", "i", "a", "=">> \o r.categoria[1])
       \o <<"&", "o", "f", "f", "s", "e", "t", "=", "0", "&", "r", "a", "i", "o", "=">> \o TemplateText(SearchRaio) \o <<"&", "d", "a", "t", "a", "=", "-", "1", "&", "o", "r", "d", "e", "m", "=">> \o SearchOrdem(r)
  ELSE <<"/", "p", "r", "o", "d", "u", "t", "o", "s", "?", "l", "o", "c", "a", "l", "=">> \o DEFAULT_GEOHASH \o <<"&", "r", "a", "i", "o", "=">> \o TemplateText(SearchRaio)
       \o <<"&", "d", "a", "t", "a", "=", "-", "1", "&", "v", "a", "l", "o", "r", "_", "m", "i", "n", "=", "0", "&", "v", "a", "l", "o", "r", "_", "m", "a", "x", "=", "0", "&", "o", "r", "d", "e", "m", "=", "0", "&", "t", "p", "_", "c", "o", "m", "b", "=">> \o r.tipo[1]

\* the keys and the endpoints of the valid requests, computed once
SearchKeys == [r \in {q \in SearchRequests : ~Invalid(q)} |-> SearchKey(r)]

SearchEndpoints == [r \in {q \in SearchRequests : ~Invalid(q)} |-> SearchEndpoint(r)]

\* what fetchMenorPrecoAPI gives: products, data without products, or the
\* error thrown after the last retry
UpstreamOutcomes == {"rows", "zero", "failed"}

\* whether the handler caches its response: handleSearchCategories always,
\* the other two after the return for (!data.produtos || data.produtos.length === 0)
CachesResponse(action, outcome) == action = "categories" \/ outcome = "rows"

\* the response object: the endpoint whose data it holds and whether it
\* holds products
SearchPayload(endpoint, outcome) == [builtFor |-> endpoint, produtos |-> outcome]

NoPayload == SearchPayload(<<>>, "zero")

SearchInit ==
  /\ shCache = <<>>
  /\ shNow = 0
  /\ shTicks = 0
  /\ shCount = 0
  /\ shFetches = 0
  /\ shPrev = Null
  /\ shLast = Null

SearchIdle ==
  /\ shCache = <<>>
  /\ shNow = 0
  /\ shTicks = 0
  /\ shCount = 0
  /\ shFetches = 0
  /\ shPrev = Null
  /\ shLast = Null

\* the answer to a request: the request, its time, its status, whether it
\* came from the cache, whether the upstream was called and what it gave, the payload,
\* and the last successful fetch before the request
SearchAnswer(r, status, cached, outcome, data) ==
  [req |-> r, at |-> shNow, status |-> status, cached |-> cached,
   outcome |-> outcome, data |-> data, prev |-> shPrev]

\* a GET request r is served, the upstream giving one of its outcomes if
\* it is called
Search(r) ==
  /\ shCount < MaxSearches
  /\ shCount' = shCount + 1
  /\ IF Invalid(r)
     THEN /\ shLast' = Some(SearchAnswer(r, 400, FALSE, "none", NoPayload))
          /\ UNCHANGED <<shCache, shFetches, shPrev>>
     ELSE LET cacheKey == SearchKeys[r]
              hit == getFromCacheResult(shCache, cacheKey, shNow, SEARCH_CACHE_TTL_MS)
              read == getFromCacheMap(shCache, cacheKey, shNow, SEARCH_CACHE_TTL_MS)
              endpoint == SearchEndpoints[r]
          IN  IF hit.hit
              THEN /\ shLast' = Some(SearchAnswer(r, 200, TRUE, "none", hit.data))
                   /\ UNCHANGED <<shCache, shFetches, shPrev>>
              ELSE /\ shFetches' = shFetches + 1
                   /\ \E o \in UpstreamOutcomes :
                        IF o = "failed"
                        THEN /\ shLast' = Some(SearchAnswer(r, 500, FALSE, o, NoPayload))
                             /\ shCache' = read
                             /\ UNCHANGED shPrev
                        ELSE /\ shLast' = Some(SearchAnswer(r, 200, FALSE, o,
                                                            SearchPayload(endpoint, o)))
                             /\ shCache' = IF CachesResponse(r.action, o)
                                           THEN setCache(read, cacheKey,
                                                         SearchPayload(endpoint, o), shNow,
                                                         SEARCH_CACHE_MAX)
                                           ELSE read
                             /\ shPrev' = Some([req |-> r, at |-> shNow, outcome |-> o])
  /\ UNCHANGED <<shNow, shTicks>>
  /\ SearchFrame

\* Date.now() advances
SearchTick(d) ==
  /\ shTicks < MaxSearchTicks
  /\ shNow' = shNow + d
  /\ shTicks' = shTicks + 1
  /\ UNCHANGED <<shCache, shCount, shFetches, shPrev, shLast>>
  /\ SearchFrame

\* clock advances that put an entry written before at its TTL and just past it
SearchTickSteps == {SEARCH_CACHE_TTL_MS, SEARCH_CACHE_TTL_MS + 1}

NextSearch ==
  \/ \E r \in SearchRequests : Search(r)
  \/ \E d \in SearchTickSteps : SearchTick(d)

(***************************************************************************)
(* Specifications                                                          *)
(***************************************************************************)
InitCache == CacheInit /\ RateInit /\ FetchInit /\ MonIdle /\ ProfInit /\ HandlerIdle /\ NormIdle /\ ResumoIdle /\ MetricsIdle /\ DashIdle /\ RegIdle /\ ScoreIdle /\ HookIdle /\ RadiusIdle /\ ContentIdle /\ SearchIdle

SpecCache == InitCache /\ [][NextCache]_vars

InitRate == RateInit /\ CacheIdle /\ FetchInit /\ MonIdle /\ ProfInit /\ HandlerIdle /\ NormIdle /\ ResumoIdle /\ MetricsIdle /\ DashIdle /\ RegIdle /\ ScoreIdle /\ HookIdle /\ RadiusIdle /\ ContentIdle /\ SearchIdle

SpecRate == InitRate /\ [][NextRate]_vars

InitFetch == FetchInit /\ CacheIdle /\ RateInit /\ MonIdle /\ ProfInit /\ HandlerIdle /\ NormIdle /\ ResumoIdle /\ MetricsIdle /\ DashIdle /\ RegIdle /\ ScoreIdle /\ HookIdle /\ RadiusIdle /\ ContentIdle /\ SearchIdle

SpecFetch == InitFetch /\ [][NextFetch]_vars

InitMonitor == MonInit /\ CacheIdle /\ RateInit /\ FetchInit /\ ProfInit /\ HandlerIdle /\ NormIdle /\ ResumoIdle /\ MetricsIdle /\ DashIdle /\ RegIdle /\ ScoreIdle /\ HookIdle /\ RadiusIdle /\ ContentIdle /\ SearchIdle

SpecMonitor == InitMonitor /\ [][NextMonitor]_vars

InitProfiles == ProfInit /\ CacheIdle /\ RateInit /\ FetchInit /\ MonIdle /\ HandlerIdle /\ NormIdle /\ ResumoIdle /\ MetricsIdle /\ DashIdle /\ RegIdle /\ ScoreIdle /\ HookIdle /\ RadiusIdle /\ ContentIdle /\ SearchIdle

SpecProfiles == InitProfiles /\ [][NextProfiles]_vars

InitHandler == HandlerInit /\ CacheIdle /\ RateInit /\ FetchInit /\ MonIdle /\ ProfInit /\ NormIdle /\ ResumoIdle /\ MetricsIdle /\ DashIdle /\ RegIdle /\ ScoreIdle /\ HookIdle /\ RadiusIdle /\ ContentIdle /\ SearchIdle

SpecHandler == InitHandler /\ [][NextHandler]_vars

InitNormalize ==
  NormInit /\ CacheIdle /\ RateInit /\ FetchInit /\ MonIdle /\ ProfInit /\ HandlerIdle /\ ResumoIdle /\ MetricsIdle /\ DashIdle /\ RegIdle /\ ScoreIdle /\ HookIdle /\ RadiusIdle /\ ContentIdle /\ SearchIdle

SpecNormalize == InitNormalize /\ [][NextNormalize]_vars

InitResumo ==
  ResumoInit /\ CacheIdle /\ RateInit /\ FetchInit /\ MonIdle /\ ProfInit /\ HandlerIdle /\ NormIdle /\ MetricsIdle /\ DashIdle /\ RegIdle /\ ScoreIdle /\ HookIdle /\ RadiusIdle /\ ContentIdle /\ SearchIdle

SpecResumo == InitResumo /\ [][NextResumo]_vars

InitMetrics ==
  MetricsInit /\ CacheIdle /\ RateInit /\ FetchInit /\ MonIdle /\ ProfInit /\ HandlerIdle /\ NormIdle /\ ResumoIdle /\ DashIdle /\ RegIdle /\ ScoreIdle /\ HookIdle /\ RadiusIdle /\ ContentIdle /\ SearchIdle

SpecMetrics == InitMetrics /\ [][NextMetrics]_vars

InitDashboard ==
  DashInit /\ CacheIdle /\ RateInit /\ FetchInit /\ MonIdle /\ ProfInit /\ HandlerIdle /\ NormIdle /\ ResumoIdle /\ MetricsIdle /\ RegIdle /\ ScoreIdle /\ HookIdle /\ RadiusIdle /\ ContentIdle /\ SearchIdle

SpecDashboard == InitDashboard /\ [][NextDashboard]_vars

InitRegistry ==
  RegInit /\ CacheIdle /\ RateInit /\ FetchInit /\ MonIdle /\ ProfInit /\ HandlerIdle /\ NormIdle /\ ResumoIdle /\ MetricsIdle /\ DashIdle /\ ScoreIdle /\ HookIdle /\ RadiusIdle /\ ContentIdle /\ SearchIdle

SpecRegistry == InitRegistry /\ [][NextRegistry]_vars

InitScoring ==
  ScoreInit /\ CacheIdle /\ RateInit /\ FetchInit /\ MonIdle /\ ProfInit /\ HandlerIdle /\ NormIdle /\ ResumoIdle /\ MetricsIdle /\ DashIdle /\ RegIdle /\ HookIdle /\ RadiusIdle /\ ContentIdle /\ SearchIdle

SpecScoring == InitScoring /\ [][NextScoring]_vars

InitHook ==
  HookInit /\ CacheIdle /\ RateInit /\ FetchInit /\ MonIdle /\ ProfInit /\ HandlerIdle /\ NormIdle /\ ResumoIdle /\ MetricsIdle /\ DashIdle /\ RegIdle /\ ScoreIdle /\ RadiusIdle /\ ContentIdle /\ SearchIdle

SpecHook == InitHook /\ [][NextHook]_vars

InitRadius ==
  RadiusInit /\ CacheIdle /\ RateInit /\ FetchInit /\ MonIdle /\ ProfInit /\ HandlerIdle /\ NormIdle /\ ResumoIdle /\ MetricsIdle /\ DashIdle /\ RegIdle /\ ScoreIdle /\ HookIdle /\ ContentIdle /\ SearchIdle

SpecRadius == InitRadius /\ [][NextRadius]_vars

InitContent ==
  ContentInit /\ CacheIdle /\ RateInit /\ FetchInit /\ MonIdle /\ ProfInit /\ HandlerIdle /\ NormIdle /\ ResumoIdle /\ MetricsIdle /\ DashIdle /\ RegIdle /\ ScoreIdle /\ HookIdle /\ RadiusIdle /\ SearchIdle

SpecContent == InitContent /\ [][NextContent]_vars

InitSearch ==
  SearchInit /\ CacheIdle /\ RateInit /\ FetchInit /\ MonIdle /\ ProfInit /\ HandlerIdle /\ NormIdle /\ ResumoIdle /\ MetricsIdle /\ DashIdle /\ RegIdle /\ ScoreIdle /\ HookIdle /\ RadiusIdle /\ ContentIdle

SpecSearch == InitSearch /\ [][NextSearch]_vars

(***************************************************************************)
(* C1                                                                      *)
(***************************************************************************)
C1_Capacity == IF inst = "search" THEN 1000 ELSE 100

C1_TTL == IF inst = "search" THEN 15 * 60 * 1000 ELSE 5 * 60 * 1000

\* an insertion of an absent key into a full cache
C1_Overflows == ~MapHas(cache, lastOp'.key) /\ Len(cache) = C1_Capacity

\* exactly one key left the cache, it is a miss now, and every other key stays
C1_EvictsOneMissing ==
  /\ Cardinality(lastOp'.evicted) = 1
  /\ \A e \in lastOp'.evicted :
       /\ ~MapHas(cache', e)
       /\ ~getFromCacheResult(cache', e, now', C1_TTL).hit
       /\ MapKeys(cache') = (MapKeys(cache) \cup {lastOp'.key}) \ {e}

\* no entry present before the step has an earlier insertion time than e's
C1_EarliestTimestamp(e) ==
  \E j \in 1..Len(cache) :
     /\ cache[j].key = e
     /\ \A h \in 1..Len(cache) : cache[j].timestamp <= cache[h].timestamp

\* no key present before the step entered the cache before e did (history:
\* firstIns numbers the insertions of absent keys)
C1_EarliestEntry(e) ==
  /\ firstIns[e] > 0
  /\ \A h \in 1..Len(cache) : firstIns[e] <= firstIns[cache[h].key]

\* C1 (as stated): the cache never holds more than 1000 (search) / 100
\* (dashboard) entries, and an insertion that overflows the capacity evicts
\* exactly the entry with the earliest insertion time among those present,
\* which is a miss on the next lookup.
C1_Original ==
  /\ [](Len(cache) <= C1_Capacity)
  /\ [][IsSetStep =>
          IF C1_Overflows
          THEN C1_EvictsOneMissing /\ \A e \in lastOp'.evicted : C1_EarliestTimestamp(e)
          ELSE lastOp'.evicted = {}]_vars

\* C1 (amended): the cache never holds more than 1000 (search) / 100
\* (dashboard) entries, and an insertion that overflows the capacity evicts
\* exactly the entry whose key entered the cache earliest among those present
\* (writing a present key again renews its insertion time, not its place in
\* the eviction order); the evicted key is a miss on the next lookup, and no
\* other call of setCache evicts anything.
C1_FifoEviction ==
  /\ [](Len(cache) <= C1_Capacity)
  /\ [][IsSetStep =>
          IF C1_Overflows
          THEN C1_EvictsOneMissing /\ \A e \in lastOp'.evicted : C1_EarliestEntry(e)
          ELSE lastOp'.evicted = {}]_vars

\* the search cache is full after an insertion that evicted key 1, whose
\* entry had been written again later than the entries that stay
C1_Witness ==
  /\ inst = "search"
  /\ lastOp.op = "set"
  /\ lastOp.evicted = {1}
  /\ Len(cache) = 1000
  /\ \E j \in 1..Len(cache) : cache[j].timestamp = 0
  /\ firstIns[2] = 2
  /\ now > 0

(***************************************************************************)
(* C2                                                                      *)
(***************************************************************************)
C2_TTL == IF inst = "search" THEN 15 * 60 * 1000 ELSE 5 * 60 * 1000

\* C2: getFromCache(key) returns the stored payload if and only if an entry
\* for key exists and now minus its insertion time is at most the TTL
\* (15 minutes search, 5 minutes dashboard); otherwise the lookup is a miss.
C2_HitIffFresh ==
  [][IsGetStep =>
       IF \E j \in 1..Len(cache) :
            cache[j].key = lastOp'.key /\ now - cache[j].timestamp <= C2_TTL
       THEN /\ lastOp'.res.hit
            /\ \E j \in 1..Len(cache) :
                 cache[j].key = lastOp'.key /\ cache[j].data = lastOp'.res.data
       ELSE lastOp'.res = Miss]_vars

\* a lookup hit an entry whose age is exactly the TTL of the dashboard cache
C2_Witness ==
  /\ inst = "dashboard"
  /\ lastOp.op = "get"
  /\ lastOp.res.hit
  /\ \E j \in 1..Len(cache) :
       cache[j].key = lastOp.key /\ now - cache[j].timestamp = 5 * 60 * 1000

\* a lookup missed an entry of the search cache one millisecond past its TTL
C2_WitnessExpired ==
  /\ inst = "search"
  /\ lastOp.op = "get"
  /\ ~lastOp.res.hit
  /\ now = 15 * 60 * 1000 + 1
  /\ ~MapHas(cache, lastOp.key)
  /\ firstIns[1] = 0 /\ lastOp.key = 1

(***************************************************************************)
(* C3, C4                                                                  *)
(***************************************************************************)
\* the bursts of one identity, in arrival order
RateLogOf(u) == SelectSeq(rateLog, LAMBDA e : e.user = u)

RECURSIVE SumOf(_, _)
\* the sum of f over the index set I
SumOf(f, I) ==
  IF I = {} THEN 0
  ELSE LET i == CHOOSE x \in I : TRUE IN f[i] + SumOf(f, I \ {i})

SentBefore(L, i) == SumOf([j \in 1..Len(L) |-> L[j].sent], 1..(i - 1))

AcceptedIn(L, I) == SumOf([j \in 1..Len(L) |-> L[j].accepted], I)

Clamp(x, lo, hi) == IF x < lo THEN lo ELSE IF x > hi THEN hi ELSE x

\* C3: for one caller identity, of the requests arriving within 60 seconds
\* of its first request exactly the first 60 are accepted (the 61st is
\* rejected), and a 61st request arriving 61 seconds or more after the first
\* request is accepted.
C3_WindowQuota ==
  \A u \in UserIds :
    LET L == RateLogOf(u)
    IN \A i \in 1..Len(L) :
         /\ L[i].t - L[1].t <= 60000 =>
               L[i].accepted = Clamp(60 - SentBefore(L, i), 0, L[i].sent)
         /\ (SentBefore(L, i) = 60 /\ L[i].t - L[1].t >= 61000) =>
               L[i].accepted >= 1

\* the 61st request of an identity arrived 60 seconds after its first one,
\* still inside the window, and was rejected
C3_Witness ==
  \E u \in UserIds :
    LET L == RateLogOf(u)
    IN \E i \in 1..Len(L) :
         /\ SentBefore(L, i) = 60
         /\ L[i].t - L[1].t = 60000
         /\ L[i].sent = 1
         /\ L[i].accepted = 0

\* the 61st request of an identity arrived 61 seconds after its first one
\* and was accepted
C3_WitnessReset ==
  \E u \in UserIds :
    LET L == RateLogOf(u)
    IN \E i \in 1..Len(L) :
         /\ SentBefore(L, i) = 60
         /\ L[i].t - L[1].t = 61000
         /\ L[i].accepted = 1

\* C4 (as stated): for every caller identity and every interval of 60
\* seconds, at most 60 requests of that identity are accepted.
C4_Original ==
  \A u \in UserIds :
    LET L == RateLogOf(u)
    IN \A i \in 1..Len(L) :
         AcceptedIn(L, {j \in 1..Len(L) :
                          L[i].t <= L[j].t /\ L[j].t < L[i].t + 60000}) <= 60

RECURSIVE C4_WindowStart(_, _)
\* the time the window of burst i opened: with the first request of the
\* identity, or with its first request more than 60 seconds after the
\* window before opened
C4_WindowStart(L, i) ==
  IF i = 1 THEN L[1].t
  ELSE IF L[i].t > C4_WindowStart(L, i - 1) + 60000 THEN L[i].t
  ELSE C4_WindowStart(L, i - 1)

\* C4 (amended): for every caller identity at most 60 requests are accepted
\* in each fixed window (a window opens with the identity's first request,
\* or with its first request arriving more than 60 seconds after the window
\* before opened); an interval of 60 seconds can overlap two windows and
\* holds at most 120 accepted requests.
C4_FixedWindowQuota ==
  \A u \in UserIds :
    LET L == RateLogOf(u)
    IN \A i \in 1..Len(L) :
         /\ AcceptedIn(L, {j \in 1..Len(L) :
                             C4_WindowStart(L, j) = C4_WindowStart(L, i)}) <= 60
         /\ AcceptedIn(L, {j \in 1..Len(L) :
                             L[i].t <= L[j].t /\ L[j].t < L[i].t + 60000}) <= 120

\* 119 requests of one identity were accepted within one second: 59 at the
\* end of a window and 60 at the start of the next
C4_Witness ==
  \E u \in UserIds :
    LET L == RateLogOf(u)
    IN /\ Len(L) = 3
       /\ L[2].accepted = 59 /\ L[3].accepted = 60
       /\ L[3].t - L[2].t = 1000
       /\ C4_WindowStart(L, 3) # C4_WindowStart(L, 2)

(***************************************************************************)
(* C5                                                                      *)
(***************************************************************************)
\* the pause between the end of attempt i - 1 and the start of attempt i
C5_Pause(i) == fetchLog[i].at - fetchLog[i - 1].end

\* C5: one call of the upstream client makes at most 3 attempts; the pause
\* before the second attempt is 1 s and before the third 2 s; the call
\* returns the JSON of the first successful attempt and makes no attempt
\* after it, also when that JSON holds no products; and it throws exactly
\* after three failed attempts, the error being that of the third.
C5_RetryContract ==
  /\ Len(fetchLog) <= 3
  /\ \A i \in 1..Len(fetchLog) : fetchLog[i].attempt = i - 1
  /\ Len(fetchLog) >= 2 => C5_Pause(2) = 1000
  /\ Len(fetchLog) >= 3 => C5_Pause(3) = 2000
  /\ \A i \in 1..(Len(fetchLog) - 1) : ~fetchLog[i].ok
  /\ fetchPc = "returned" <=> (fetchLog # <<>> /\ fetchLog[Len(fetchLog)].ok)
  /\ fetchPc = "returned" => fetchResult = fetchLog[Len(fetchLog)].data
  /\ fetchPc = "threw" <=> (Len(fetchLog) = 3 /\ ~fetchLog[3].ok)
  /\ fetchPc = "threw" => fetchResult = fetchLog[3].error
  /\ fetchPc \in {"try", "backoff"} => Len(fetchLog) < 3

\* the third attempt succeeds with an empty result set, after two failures
\* of different kinds
C5_Witness ==
  /\ fetchPc = "returned"
  /\ Len(fetchLog) = 3
  /\ fetchLog[1].error[1] = "AbortError"
  /\ fetchLog[2].error[1] = "API returned 500"
  /\ fetchResult = "produtos: []"
  /\ fetchNow = REQUEST_TIMEOUT_MS + 3000

\* three attempts fail, the last one differently from the others
C5_WitnessThrew ==
  /\ fetchPc = "threw"
  /\ fetchLog[1].error[1] = "TypeError"
  /\ fetchLog[3].error[1] = "SyntaxError"
  /\ fetchResult = <<"SyntaxError", 2>>

\* the first attempt succeeds with an empty result set
C5_WitnessEmptyFirst ==
  /\ fetchPc = "returned"
  /\ Len(fetchLog) = 1
  /\ fetchResult = "produtos: []"
(***************************************************************************)
(* C6                                                                      *)
(***************************************************************************)
\* the prices above zero of a response, in the order of the response
C6_Prices(produtos) ==
  LET pos == SelectSeq(produtos, LAMBDA q : q.valor > 0)
  IN  [j \in 1..Len(pos) |-> pos[j].valor]

C6_IsDegraded(v) ==
  /\ v.status = "no_price"
  /\ v.total_competitors = 0
  /\ v.competitor_prices = <<>>
  /\ v.pharmacy_details = <<>>
  /\ v.lowest_competitor_price = <<>>
  /\ v.highest_competitor_price = <<>>
  /\ v.avg_competitor_price = <<>>

C6_IsPopulated(v, produtos) ==
  /\ v.total_competitors = Len(produtos)
  /\ v.competitor_prices = C6_Prices(produtos)
  /\ Len(v.pharmacy_details) = Len(C6_Prices(produtos))
  /\ \A j \in 1..(Len(v.pharmacy_details) - 1) :
       v.pharmacy_details[j].valor <= v.pharmacy_details[j + 1].valor
  /\ C6_Prices(produtos) # <<>> =>
       /\ v.lowest_competitor_price # <<>>
       /\ v.highest_competitor_price # <<>>
       /\ \A j \in 1..Len(C6_Prices(produtos)) :
            /\ v.lowest_competitor_price[1] <= C6_Prices(produtos)[j]
            /\ v.highest_competitor_price[1] >= C6_Prices(produtos)[j]

\* C6: a call of monitorProductPrices over N products ends only by
\* returning; what it returns has N elements, the i-th being the result of
\* the i-th product whatever the order in which the searches completed;
\* the result of a product whose search threw is the degraded one
\* (no_price, no competitors, no prices) and the result of every other
\* product is built from the response of its search.
C6_BatchIsolation ==
  /\ monPc \in {"idle", "running", "returned"}
  /\ \A q \in DOMAIN promises : promises[q].status # "rejected"
  /\ monPc = "returned" =>
       /\ Len(monResults) = monN
       /\ \A i \in 1..monN :
            /\ monResults[i].id = i
            /\ IF promises[i].upstream[1].ok
               THEN C6_IsPopulated(monResults[i], promises[i].upstream[1].produtos)
               ELSE C6_IsDegraded(monResults[i])

\* three products; the search of the second throws after the third has
\* completed, and the first completes last
C6_Witness ==
  /\ monPc = "returned"
  /\ monN = 3
  /\ settled = <<3, 2, 1>>
  /\ ~promises[2].upstream[1].ok
  /\ monResults[2].status = "no_price"
  /\ monResults[1].status = "competitive"
  /\ monResults[1].total_competitors = 3
  /\ monResults[3].status = "moderate"
(***************************************************************************)
(* C7                                                                      *)
(***************************************************************************)
\* the committed active profiles of a user
ActiveOf(rows, u) == {r \in ProfileIds : rows[r].exists /\ rows[r].is_active /\ Owner(r) = u}

Users == {Owner(r) : r \in ProfileIds}

\* no two sessions hold the lock of one row
C7_LocksExclusive == \A s, t \in Sessions : s # t => Locks(s) \cap Locks(t) = {}

\* C7: in every reachable state, whatever the interleaving of the inserts,
\* updates and activations, at most one committed profile of each user has
\* is_active = TRUE.
C7_SingleActive == \A u \in Users : Cardinality(ActiveOf(profiles, u)) <= 1

\* the same as long as no two statements have been in flight together
C7_SingleActiveSerial ==
  ~overlap => \A u \in Users : Cardinality(ActiveOf(profiles, u)) <= 1

\* two statements, each activating another profile of one user, have both
\* committed
C7_BothActive ==
  /\ \A s \in Sessions : tx[s].pc = "idle"
  /\ ActiveOf(profiles, "user-1") = {"A", "B"}

(***************************************************************************)
(* C8                                                                      *)
(***************************************************************************)
\* the step in which the activation of session s commits
C8_ActivationCommits(s) ==
  /\ tx[s].pc = "inner"
  /\ tx[s].todo = {}
  /\ tx[s].kind = "activate"
  /\ tx'[s].pc = "idle"

\* another profile of the same user is active when the activation commits
C8_OtherActive(s) == ActiveOf(profiles, Owner(tx[s].target)) \ {tx[s].target} # {}

\* the activated profile is the only active one of its user, and no
\* profile of another user has changed
C8_Post(s) ==
  /\ ActiveOf(profiles', Owner(tx[s].target)) = {tx[s].target}
  /\ \A r \in ProfileIds : Owner(r) # Owner(tx[s].target) => profiles'[r] = profiles[r]

\* C8: an activation of profile B that commits while another profile A of
\* the same user is active leaves B the only active profile of that user,
\* A and every other profile of the user being deactivated by the same
\* statement, and leaves the profiles of every other user as they were.
C8_ActivateOverActive ==
  [][\A s \in Sessions : (C8_ActivationCommits(s) /\ C8_OtherActive(s)) => C8_Post(s)]_vars

\* the same as long as no two statements have been in flight together
C8_ActivateOverActiveSerial ==
  [][\A s \in Sessions :
       (C8_ActivationCommits(s) /\ C8_OtherActive(s) /\ ~overlap) => C8_Post(s)]_vars

\* profile A is active; the activation of C has deactivated A and not yet
\* committed, and the activation of B, started meanwhile, waits for A
C8_RaceCase ==
  /\ profiles["A"].is_active
  /\ \E s, t \in Sessions :
       /\ tx[s].kind = "activate" /\ tx[s].target = "C" /\ tx[s].cleared = {"A"}
       /\ tx[t].kind = "activate" /\ tx[t].target = "B" /\ tx[t].todo = {"A"}

\* an activation commits alone while another profile of the user is active
\* and a profile of another user is active too
C8_SerialCase ==
  /\ ~overlap
  /\ tx["s1"].pc = "inner" /\ tx["s1"].todo = {} /\ tx["s1"].kind = "activate"
  /\ tx["s1"].target = "B" /\ tx["s1"].cleared = {"A"}
  /\ profiles["X"].is_active
  /\ profiles["C"].exists
(***************************************************************************)
(* C9                                                                      *)
(***************************************************************************)
\* lat and lon are supplied, are numbers (a JSON number, or a string that
\* parseFloat reads as one) and lie inside [-90,90] x [-180,180]
C9_Usable(lat, lon) ==
  /\ lat.t \in {"str", "num"}
  /\ lon.t \in {"str", "num"}
  /\ ~parseFloat(lat).nan
  /\ ~parseFloat(lon).nan
  /\ parseFloat(lat).v >= (0 - 90) * Unit /\ parseFloat(lat).v <= 90 * Unit
  /\ parseFloat(lon).v >= (0 - 180) * Unit /\ parseFloat(lon).v <= 180 * Unit

C9_Expected(lat, lon) ==
  IF C9_Usable(lat, lon)
  THEN encodeGeohash(parseFloat(lat).v, parseFloat(lon).v, 9)
  ELSE <<"6", "g", "3", "n", "t", "y", "e", "c", "f">>

\* the handler has chosen the spatial key of the request
C9_Resolved == hPc \in {"fetching", "responded"} /\ hReq.valid /\ ~hLimited

\* a response that no failure of the upstream stands behind
C9_Served == hPc = "responded" /\ hReq.valid /\ hUpstream \in {"ok", "cached"}

\* C9: for each of the four actions, the spatial key of the upstream query
\* is encode(lat, lon, 9) when lat and lon are supplied numbers inside the
\* bounds, and the default key 6g3ntyecf otherwise (absent, unparseable or
\* out of bounds), in which case the request is still answered with 200.
C9_SpatialKey ==
  /\ C9_Resolved => hGeohash = C9_Expected(hReq.lat, hReq.lon)
  /\ C9_Served => hStatus = 200

\* the same for the three GET actions
C9_SpatialKeyGet == hReq.action # "snapshot" => C9_SpatialKey

\* the same for snapshot requests without a numeric zero coordinate
C9_SpatialKeySnapshot ==
  (hReq.action = "snapshot" /\ hReq.lat # NumVal(0) /\ hReq.lon # NumVal(0)) => C9_SpatialKey

\* a snapshot request on the equator is answered from the default key
C9_ZeroLatitude ==
  /\ hReq.action = "snapshot"
  /\ hReq.lat = NumVal(0)
  /\ hReq.lon = NumVal((0 - 51) * (Unit \div 2))
  /\ hPc = "responded"
  /\ hStatus = 200
  /\ hGeohash = DEFAULT_GEOHASH
  /\ hGeohash # encodeGeohash(0, (0 - 51) * (Unit \div 2), 9)

\* a GET request with coordinates inside the bounds is answered from their
\* key, and one with a latitude of 91 from the default key
C9_GetCases ==
  /\ hReq.action = "products"
  /\ hPc = "responded"
  /\ hStatus = 200
  /\ \/ /\ hReq.lat = StrVal(<<"0">>)
        /\ hReq.lon = StrVal(<<"-", "2", "5", ".", "5">>)
        /\ hGeohash = encodeGeohash(0, (0 - 51) * (Unit \div 2), 9)
     \/ /\ hReq.lat = StrVal(<<"9", "1">>)
        /\ hReq.lon = StrVal(<<"9", "1">>)
        /\ hGeohash = DEFAULT_GEOHASH
(***************************************************************************)
(* C10                                                                     *)
(***************************************************************************)
\* a value that is a number: a JSON number, or a string parseFloat reads
C10_IsNumber(x) == x.t \in {"str", "num"} /\ ~parseFloat(x).nan

\* the first number among the fields, if any
RECURSIVE C10_FirstNumber(_)
C10_FirstNumber(fields) ==
  IF fields = <<>> THEN <<>>
  ELSE IF C10_IsNumber(fields[1]) THEN <<parseFloat(fields[1])>>
  ELSE C10_FirstNumber(Tail(fields))

C10_Record(product) ==
  IF product.estabelecimento # <<>> THEN product.estabelecimento[1]
  ELSE IF product.loja # <<>> THEN product.loja[1]
  ELSE IF product.comercio # <<>> THEN product.comercio[1]
  ELSE EmptyEstab

\* (a) the combined field holds "lat,lon"
C10_Combined(e) ==
  IF e.latlng.t = "str" /\ Len(Split(e.latlng.s)) >= 2
  THEN LET lat == ParseFloatStr(Trim(Split(e.latlng.s)[1]))
           lon == ParseFloatStr(Trim(Split(e.latlng.s)[2]))
       IN  IF lat.nan \/ lon.nan THEN <<>> ELSE <<[lat |-> lat, lon |-> lon]>>
  ELSE <<>>

\* (b) a latitude field and a longitude field hold numbers
C10_Separate(e) ==
  LET lat == C10_FirstNumber(<<e.lat, e.latitude>>)
      lon == C10_FirstNumber(<<e.lon, e.lng, e.longitude>>)
  IN  IF lat = <<>> \/ lon = <<>> THEN <<>> ELSE <<[lat |-> lat[1], lon |-> lon[1]]>>

\* (c) the spatial-hash field holds a string to decode
C10_Hash(product) ==
  IF product.local.t = "str" /\ product.local.s # <<>>
  THEN <<decodeGeohash(product.local.s)>>
  ELSE <<>>

C10_Expected(product) ==
  IF C10_Combined(C10_Record(product)) # <<>> THEN C10_Combined(C10_Record(product))
  ELSE IF C10_Separate(C10_Record(product)) # <<>> THEN C10_Separate(C10_Record(product))
  ELSE C10_Hash(product)

\* C10: normalizeProduct raises for no record, and coordenadas comes from
\* the first applicable source: (a) the combined "lat,lon" string, else (b)
\* the separate latitude and longitude fields, else (c) the decoded spatial
\* hash, else null; a record without any of them has coordenadas = null.
C10_Priority ==
  nPc = "done" => /\ ~nResult.raised
                  /\ nResult.coordenadas = C10_Expected(nProduct)

\* a separate field holds the number 0
C10_HasZero(e) ==
  \E x \in {e.lat, e.latitude, e.lon, e.lng, e.longitude} : x = NumVal(0)

\* the combined field has two parts that are not both numbers
C10_HasBrokenPair(e) ==
  e.latlng.t = "str" /\ Len(Split(e.latlng.s)) >= 2 /\ C10_Combined(e) = <<>>

\* the same for the records without a zero coordinate and without a
\* combined field of two parts that are not numbers
C10_PriorityOtherwise ==
  (~C10_HasZero(C10_Record(nProduct)) /\ ~C10_HasBrokenPair(C10_Record(nProduct)))
    => C10_Priority

\* no record makes normalizeProduct raise, and a record without coordinate
\* fields has coordenadas = null
C10_NeverRaises ==
  nPc = "done" =>
    /\ ~nResult.raised
    /\ (C10_Record(nProduct) = EmptyEstab /\ nProduct.local.t = "none")
         => nResult.coordenadas = <<>>

\* latitude 0 and a longitude in separate fields, and a spatial hash: the
\* record gets the decoded hash
C10_ZeroCoordinate ==
  /\ nPc = "done"
  /\ nProduct.loja # <<>>
  /\ nProduct.loja[1].latlng = Undefined
  /\ nProduct.loja[1].lat = NumVal(0)
  /\ nProduct.loja[1].latitude = Undefined
  /\ nProduct.loja[1].lon = NumVal((0 - 99) * (Unit \div 2))
  /\ nProduct.local = StrVal(DEFAULT_GEOHASH)
  /\ nResult.coordenadas = <<decodeGeohash(DEFAULT_GEOHASH)>>

\* the three sources at work: the combined string wins over the separate
\* fields, the separate fields over the hash, and an array in the hash
\* field leaves null
C10_Cases ==
  /\ nPc = "done"
  /\ nProduct.estabelecimento # <<>>
  /\ LET e == nProduct.estabelecimento[1]
     IN  \/ /\ e.latlng = StrVal(LatLngText)
            /\ e.lat = NumVal((0 - 51) * (Unit \div 2))
            /\ e.lon = NumVal((0 - 99) * (Unit \div 2))
            /\ nResult.coordenadas[1].lon = Num((0 - 99) * (Unit \div 2))
         \/ /\ e.latlng = Undefined /\ e.lat = Undefined
            /\ e.latitude = NumVal((0 - 10) * Unit)
            /\ e.lon = Undefined /\ e.lng = Undefined
            /\ e.longitude = StrVal(<<"-", "5", "1">>)
            /\ nProduct.local = StrVal(DEFAULT_GEOHASH)
            /\ nResult.coordenadas = <<[lat |-> Num((0 - 10) * Unit), lon |-> Num((0 - 51) * Unit)]>>
         \/ /\ e = EmptyEstab
            /\ nProduct.local = ArrVal
            /\ nResult.coordenadas = <<>>

(***************************************************************************)
(* C11                                                                     *)
(***************************************************************************)
\* a text that is a decimal numeral from its first character to its last
C11_IsNumeral(s) ==
  LET t == IF s # <<>> /\ s[1] = "-" THEN Tail(s) ELSE s
  IN  /\ \E j \in 1..Len(t) : t[j] \in DigitChars
      /\ \A j \in 1..Len(t) : t[j] \in DigitChars \cup {"."}
      /\ Cardinality({j \in 1..Len(t) : t[j] = "."}) <= 1

C11_Parseable(x) == x.t = "num" \/ (x.t = "str" /\ C11_IsNumeral(x.s))

\* the record states no price: valor and preco are absent or unparseable
C11_Unpriced(rec) == ~C11_Parseable(rec.valor) /\ ~C11_Parseable(rec.preco)

C11_Positive(produtos) == SelectSeq(produtos, LAMBDA p : ~p.valor.nan /\ p.valor.v > 0)

C11_Units(produtos) == [j \in 1..Len(produtos) |-> produtos[j].valor]

\* the resumo of the positive prices of the list alone
C11_ResumoOfPositive(produtos) ==
  LET vs == C11_Units(C11_Positive(produtos))
  IN  IF vs = <<>> THEN [total |-> Len(produtos), min |-> Null, max |-> Null, avg |-> Null]
      ELSE [total |-> Len(produtos),
            min |-> Some(ToFixed2(MinUnits(vs), 1)),
            max |-> Some(ToFixed2(MaxUnits(vs), 1)),
            avg |-> Some(ToFixed2(SumUnits(vs), Len(vs)))]

\* C11 (second half): a record whose price is 0, negative or not a number
\* stays in the result list and is counted in total, and min, max, avg and
\* the prices given to the volatility computation are those of the
\* positive prices alone.
C11_NonPositiveExcluded ==
  /\ rPc # "input" => Len(rProdutos) = Len(rRecords)
  /\ rPc # "input" =>
       competitorPrices(rProdutos)
         = [j \in 1..Len(C11_Positive(rProdutos)) |-> Some(C11_Positive(rProdutos)[j].valor.v)]
  /\ rPc = "done" => rResumo = C11_ResumoOfPositive(rProdutos)

\* C11 (first half, absent price): a record with neither valor nor preco
\* normalizes to price 0.
C11_AbsentIsZero ==
  rPc # "input" =>
    \A j \in 1..Len(rRecords) :
      (rRecords[j].valor = Undefined /\ rRecords[j].preco = Undefined)
        => rProdutos[j].valor = Num(0)

\* C11: normalizing a record whose price field is unparseable (the "12,50"
\* style) or absent yields price 0, and a record with price 0 or negative
\* stays in the result list but is excluded from the resumo min/max/avg and
\* from the volatility computation.
C11_UnparseableIsZero ==
  /\ rPc # "input" =>
       \A j \in 1..Len(rRecords) :
         C11_Unpriced(rRecords[j]) => rProdutos[j].valor = Num(0)
  /\ C11_NonPositiveExcluded

\* the record with valor "12,50" was normalized to price 12 and the resumo
\* counts it as 12.00
C11_CommaPrice ==
  /\ rPc = "done"
  /\ Len(rRecords) = 1
  /\ rRecords[1].valor = StrVal(<<"1", "2", ",", "5", "0">>)
  /\ rRecords[1].preco = Undefined
  /\ rProdutos[1].valor = Num(12 * Unit)
  /\ rResumo = [total |-> 1, min |-> Some(1200), max |-> Some(1200), avg |-> Some(1200)]

\* the record with valor "abc" was normalized to NaN, not to 0
C11_TextPrice ==
  /\ rPc = "done"
  /\ Len(rRecords) = 1
  /\ rRecords[1].valor = StrVal(<<"a", "b", "c">>)
  /\ rProdutos[1].valor = NaN
  /\ rResumo = [total |-> 1, min |-> Null, max |-> Null, avg |-> Null]

\* a list with a negative and a positive price: total counts both, the
\* resumo is that of the positive one
C11_MixedList ==
  /\ rPc = "done"
  /\ Len(rRecords) = 2
  /\ rProdutos[1].valor = Num((0 - 5) * Unit)
  /\ rProdutos[2].valor = Num(25 * (Unit \div 2))
  /\ rResumo = [total |-> 2, min |-> Some(1250), max |-> Some(1250), avg |-> Some(1250)]

(***************************************************************************)
(* C12                                                                     *)
(***************************************************************************)
C12_StampFields(rec) ==
  <<rec.datahora, rec.data, rec.dt_coleta, rec.ultima_atualizacao, rec.data_atualizacao>>

\* the timestamp fields of the record that hold something, in their order
C12_Present(rec) == SelectSeq(C12_StampFields(rec), Truthy)

\* the label of an age of ms milliseconds
C12_AgeLabel(ms) ==
  IF ms \div 60000 < 60 THEN TimeLabel("ha ${diffMin} min", ms \div 60000, <<>>)
  ELSE IF ms \div 3600000 < 24 THEN TimeLabel("ha ${diffH} horas", ms \div 3600000, <<>>)
  ELSE TimeLabel("ha ${diffD} dias", ms \div 86400000, <<>>)

C12_Sentinel == TimeLabel("Tempo nao informado", 0, <<>>)

\* C12 (amended): the recency label is "Tempo não informado" exactly when
\* no timestamp field holds a value; when the first timestamp field that
\* holds a value fails to parse, the label is "Atualizado em: " followed by
\* the raw text of that field; otherwise it is the number of minutes (under
\* an hour), hours (under a day) or days between the timestamp and the time
\* of normalization.
C12_TimeLabel ==
  rPc # "input" =>
    \A j \in 1..Len(rRecords) :
      LET present == C12_Present(rRecords[j])
          tempo == rProdutos[j].tempo
      IN  /\ (tempo = C12_Sentinel) <=> (present = <<>>)
          /\ (present # <<>> /\ DateParse(present[1]).nan)
               => tempo = TimeLabel("Atualizado em: ${dateStr}", 0, present[1].s)
          /\ (present # <<>> /\ ~DateParse(present[1]).nan)
               => tempo = C12_AgeLabel(rNow - DateParse(present[1]).v)

\* C12 (as stated): the recency label is "Tempo não informado" whenever no
\* timestamp field is present or the present timestamp fails to parse;
\* otherwise it is "N minutes/hours/days ago" relative to normalization
\* time.
C12_Original ==
  rPc # "input" =>
    \A j \in 1..Len(rRecords) :
      LET present == C12_Present(rRecords[j])
          tempo == rProdutos[j].tempo
      IN  IF present = <<>> \/ DateParse(present[1]).nan
          THEN tempo = C12_Sentinel
          ELSE tempo = C12_AgeLabel(rNow - DateParse(present[1]).v)

\* a list of three kinds of record was normalized: no timestamp, a
\* timestamp that is not a date, and one of an hour and a half (or three
\* hours) before
C12_Witness ==
  /\ rPc # "input"
  /\ Len(rRecords) = 2
  /\ rRecords[1].datahora = StrVal(StampBroken)
  /\ rProdutos[1].tempo = TimeLabel("Atualizado em: ${dateStr}", 0, StampBroken)
  /\ rRecords[2].datahora = StrVal(StampHourAgo)
  /\ rProdutos[2].tempo \in {TimeLabel("ha ${diffH} horas", 1, <<>>),
                             TimeLabel("ha ${diffH} horas", 2, <<>>)}

\* labels in minutes, in days, for a timestamp ahead of the clock, and the
\* sentinel
C12_WitnessUnits ==
  /\ rPc # "input"
  /\ Len(rRecords) = 2
  /\ rNow = ((4 * 1440 + 600) * 60000) + 500
  /\ rProdutos[1].tempo = TimeLabel("ha ${diffMin} min", 14, <<>>)
  /\ rProdutos[2].tempo = TimeLabel("ha ${diffD} dias", 3, <<>>)

C12_WitnessAhead ==
  /\ rPc # "input"
  /\ Len(rRecords) = 2
  /\ rProdutos[1].tempo = C12_Sentinel
  /\ rProdutos[2].tempo.n < 0

(***************************************************************************)
(* C13                                                                     *)
(***************************************************************************)
C13_Classified == mPc \in {"status", "done"}

\* the average of the competitor prices as the fraction sum / count, and
\* the highest price handed to the classification
C13_Sum == SumPrices(mPrices)

C13_Count == Len(mPrices)

C13_Highest == IF mHighestKnown /\ mPrices # <<>> THEN Some(MaxPrice(mPrices)) ELSE Null

\* the classification of an own price that is there, against an average
\* that is there
C13_Against(own) ==
  IF own * C13_Count < C13_Sum THEN "competitive"
  ELSE IF C13_Highest # Null /\ own > C13_Highest[1] THEN "high"
  ELSE IF C13_Highest = Null /\ own * C13_Count > C13_Sum THEN "high"
  ELSE "moderate"

\* C13 (amended): the status is no_price if the own price is absent or 0
\* or the competitor average is absent; else competitive if own < average;
\* else high if own > highest (average when highest is absent); else
\* moderate.
C13_Status ==
  C13_Classified =>
    mMetrics.status = IF mOwn = Null \/ mOwn[1] = 0 \/ mPrices = <<>> THEN "no_price"
                      ELSE C13_Against(mOwn[1])

\* C13 (as stated): the status is no_price if the own price or the
\* competitor average is absent; else competitive if own < average; else
\* high if own > highest (average when highest is absent); else moderate.
C13_Original ==
  C13_Classified =>
    mMetrics.status = IF mOwn = Null \/ mPrices = <<>> THEN "no_price"
                      ELSE C13_Against(mOwn[1])

\* the examples: average 10 and highest 15, own 5 is competitive
C13_Witness ==
  /\ C13_Classified
  /\ mPrices = <<500, 1000, 1500>> /\ mHighestKnown
  /\ mOwn = Some(500)
  /\ mMetrics.status = "competitive"

C13_WitnessModerate ==
  /\ C13_Classified
  /\ mPrices = <<500, 1000, 1500>> /\ mHighestKnown
  /\ mOwn = Some(1200)
  /\ mMetrics.status = "moderate"

C13_WitnessHigh ==
  /\ C13_Classified
  /\ mPrices = <<500, 1000, 1500>> /\ mHighestKnown
  /\ mOwn = Some(2000)
  /\ mMetrics.status = "high"

C13_WitnessNoPrice ==
  /\ C13_Classified
  /\ mPrices = <<500, 1000, 1500>>
  /\ mOwn = Null
  /\ mMetrics.status = "no_price"

\* without the highest price, an own price above the average is high
C13_WitnessFallback ==
  /\ C13_Classified
  /\ mPrices = <<500, 1000, 1500>> /\ ~mHighestKnown
  /\ mOwn = Some(1200)
  /\ mMetrics.status = "high"

\* an own price of 0 against an average of 10 is no_price
C13_WitnessZero ==
  /\ C13_Classified
  /\ mPrices = <<500, 1000, 1500>>
  /\ mOwn = Some(0)
  /\ mMetrics.status = "no_price"

(***************************************************************************)
(* C14                                                                     *)
(***************************************************************************)
\* own - avg and avg, both multiplied by the number of prices: the
\* percentage is 100 * C14_Diff / C13_Sum
C14_Diff == (mOwn[1] * C13_Count) - C13_Sum

C14_Abs(x) == IF x < 0 THEN 0 - x ELSE x

C14_Small == C14_Abs(C14_Diff) * 100 < 2 * C13_Sum

C14_Direction == IF C14_Diff > 0 THEN "up" ELSE "down"

\* C14 (amended): calculateTrend returns trend neutral with change 0 if
\* the own price is missing or 0, if the average is missing, or if
\* |(own - avg) / avg * 100| < 2; otherwise trend is up when the percentage
\* is positive and down when it is negative, with change equal to the
\* percentage rounded to one decimal (mMetrics.change is in tenths).
C14_Trend ==
  mPc = "done" =>
    IF mOwn = Null \/ mOwn[1] = 0 \/ mPrices = <<>> \/ C14_Small
    THEN mMetrics.trend = "neutral" /\ mMetrics.change = 0
    ELSE /\ mMetrics.trend = C14_Direction
         /\ 2 * C14_Abs((mMetrics.change * C13_Sum) - (C14_Diff * 1000)) <= C13_Sum

\* C14 (as stated): neutral with change 0 if either side is missing or
\* if |(own - avg) / avg * 100| < 2; otherwise up when the percentage is
\* positive and down when it is negative, with change equal to the
\* percentage.
C14_Original ==
  mPc = "done" =>
    IF mOwn = Null \/ mPrices = <<>> \/ C14_Small
    THEN mMetrics.trend = "neutral" /\ mMetrics.change = 0
    ELSE /\ mMetrics.trend = C14_Direction
         /\ mMetrics.change * C13_Sum = C14_Diff * 1000

\* own 12 against the prices 10.99, 10.99 and 10: the percentage is
\* 12.5703..., the change is 12.6 and the trend is up
C14_Witness ==
  /\ mPc = "done"
  /\ mOwn = Some(1200)
  /\ mPrices = <<1099, 1099, 1000>>
  /\ mMetrics.trend = "up"
  /\ mMetrics.change = 126

\* own 10.10 against an average of 10: 1 per cent, inside the dead zone
C14_WitnessDeadZone ==
  /\ mPc = "done"
  /\ mOwn = Some(1010)
  /\ mPrices = <<800, 1000, 1200>>
  /\ mMetrics.trend = "neutral"
  /\ mMetrics.change = 0

C14_WitnessDown ==
  /\ mPc = "done"
  /\ mOwn = Some(500)
  /\ mPrices = <<1000>>
  /\ mMetrics.trend = "down"
  /\ mMetrics.change = 0 - 500

C14_WitnessZero ==
  /\ mPc = "done"
  /\ mOwn = Some(0)
  /\ mPrices = <<1000>>
  /\ mMetrics.trend = "neutral"

(***************************************************************************)
(* C15                                                                     *)
(***************************************************************************)
\* (max - min) / average * 100 of the prices as the fraction num / den
C15_Spread == (MaxPrice(mPrices) - MinPrice(mPrices)) * 100 * Len(mPrices)

C15_Abs(x) == IF x < 0 THEN 0 - x ELSE x

\* tenths is the fraction num / den rounded to one decimal
C15_Rounds(tenths, num, den) == 2 * C15_Abs((tenths * den) - (10 * num)) <= den

\* C15 (calculateVolatility): the volatility of a list of positive prices
\* is (max - min) / average * 100 rounded to one decimal, and 0 for the
\* empty list (mMetrics.volatility is in tenths).
C15_ClientVolatility ==
  mPc # "prices" =>
    IF mPrices = <<>> THEN mMetrics.volatility = 0
    ELSE C15_Rounds(mMetrics.volatility, C15_Spread, SumPrices(mPrices))

\* C15 (calculate_product_volatility): the same of the value the database
\* function returns, a fraction: it is a whole number of tenths, the one
\* nearest to the quotient.
C15_DbVolatility ==
  mDbVolatility # Null =>
    IF mPrices = <<>> THEN mDbVolatility[1].num = 0
    ELSE \E tenths \in 0..2000 :
           /\ tenths * mDbVolatility[1].den = 10 * mDbVolatility[1].num
           /\ C15_Rounds(tenths, C15_Spread, SumPrices(mPrices))

\* C15: the volatility of a list of positive competitor prices is
\* (max - min) / average * 100 when the average is > 0 and 0 otherwise
\* (also for the empty list), rounded to 1 decimal, in calculateVolatility
\* and in calculate_product_volatility.
C15_Volatility == C15_ClientVolatility /\ C15_DbVolatility

\* C15 (what the database function does return): the quotient itself
C15_DbUnrounded ==
  mDbVolatility # Null =>
    IF mPrices = <<>> THEN mDbVolatility[1].num = 0
    ELSE mDbVolatility[1].num * SumPrices(mPrices) = C15_Spread * mDbVolatility[1].den

\* the examples: [10, 10, 10] gives 0 and [8, 10, 12] gives 40.0, in both
C15_WitnessFlat ==
  /\ mPc # "prices" /\ mDbVolatility # Null
  /\ mPrices = <<1000, 1000, 1000>>
  /\ mMetrics.volatility = 0
  /\ mDbVolatility[1].num = 0

C15_WitnessSpread ==
  /\ mPc # "prices" /\ mDbVolatility # Null
  /\ mPrices = <<800, 1000, 1200>>
  /\ mMetrics.volatility = 400
  /\ mDbVolatility[1].num = 40 * mDbVolatility[1].den

\* the prices 10, 10.99 and 12: calculateVolatility gives 18.2, the
\* database function 600000 / 3299 = 18.187...
C15_WitnessUnrounded ==
  /\ mPc # "prices" /\ mDbVolatility # Null
  /\ mPrices = <<1000, 1099, 1200>>
  /\ mMetrics.volatility = 182
  /\ mDbVolatility[1] = [num |-> 60000, den |-> 3299]

(***************************************************************************)
(* C16                                                                     *)
(***************************************************************************)
\* a request with the forced-refresh flag is never answered from the
\* cache: its response is the result it built itself, or the error
C16_ForcedBypasses ==
  dLast.req.force =>
    /\ ~dLast.resp.cached
    /\ dLast.resp.status = 200 => dLast.resp.data.builtBy = dLast.req.id

\* the result of a forced refresh is in the cache under the key of its
\* user for as long as no other request has written or evicted that entry
C16_WritesThrough ==
  \A u \in DashUsers :
    (dAfterForced[u] # Null /\ dUntouched[u]) =>
      MapHas(dCache, u) /\ MapGet(dCache, u).data = dAfterForced[u][1]

\* C16 (amended): a dashboard request with the forced-refresh flag never
\* returns the cached entry, and after it completes successfully the cache
\* holds the newly built result for that user; the user's next request
\* without the flag returns that result if it comes within the TTL and no
\* other request has replaced or evicted the entry in between.
C16_ForcedRefresh ==
  /\ C16_ForcedBypasses
  /\ C16_WritesThrough
  /\ (~dLast.req.force /\ dLast.req.expected # Null /\ dLast.req.untouched) =>
       dLast.resp.cached /\ dLast.resp.data = dLast.req.expected[1]

\* C16 (as stated): a dashboard request with the forced-refresh flag never
\* returns the cached entry, and after it completes successfully the next
\* non-forced request of that user within the TTL returns the newly built
\* result.
C16_Original ==
  /\ C16_ForcedBypasses
  /\ (~dLast.req.force /\ dLast.req.expected # Null) =>
       dLast.resp.cached /\ dLast.resp.data = dLast.req.expected[1]

\* a request without the flag was answered, exactly at the TTL, with the
\* result an earlier forced refresh had built over an entry of the cache
C16_Witness ==
  /\ ~dLast.req.force
  /\ dLast.req.expected # Null
  /\ dLast.resp.cached
  /\ dLast.resp.data = dLast.req.expected[1]
  /\ dLast.resp.data.builtBy \in 1..(dLast.req.id - 1)
  /\ dNow - dLast.resp.data.lastUpdate = DASHBOARD_CACHE_TTL_MS
  /\ dPrefill = DASHBOARD_CACHE_MAX /\ dLast.req.user = 1

\* the next request after a forced refresh got another result: that of a
\* request that was in flight during the refresh and wrote after it
C16_Overwritten ==
  /\ ~dLast.req.force
  /\ dLast.req.expected # Null
  /\ dLast.resp.cached
  /\ dLast.resp.data.builtBy # dLast.req.expected[1].builtBy

\* the next request after a forced refresh missed the cache: the refreshed
\* entry was the first key of the full cache and another user's result
\* evicted it
C16_Evicted ==
  /\ ~dLast.req.force
  /\ dLast.req.expected # Null
  /\ ~dLast.resp.cached
  /\ dPrefill = DASHBOARD_CACHE_MAX

(***************************************************************************)
(* C17                                                                     *)
(***************************************************************************)
\* the part of the result that query q fills, and what it holds when the
\* query has returned rows
C17_Part(result, q) ==
  IF q = "kpis" THEN result.kpis
  ELSE IF q = "volatile" THEN result.volatileProducts
  ELSE IF q = "competitors" THEN result.topCompetitors
  ELSE IF q = "trends" THEN result.priceTrends
  ELSE result.aiInsights

C17_Rows(q) == IF q = "kpis" THEN "row" ELSE "rows"

\* the response to a request whose queries had the outcomes o keeps what
\* the queries without an error returned
C17_Collected(o) ==
  /\ dLast'.resp.status = 200
  /\ \A q \in Queries : o[q] = "rows" => C17_Part(dLast'.resp.data, q) = C17_Rows(q)

\* C17: the dashboard summary builder collects the outcome of each of its
\* queries independently: the failure of one query never discards the
\* results of the other queries nor fails the whole dashboard response.
C17_IndependentOutcomes ==
  [][\A s \in Slots, o \in DashOutcomes : DashSettle(s, o) => C17_Collected(o)]_vars

\* C17 (the insights query alone): its failure leaves the response whole,
\* with an empty list of insights.
C17_InsightsTolerated ==
  [][\A s \in Slots, o \in DashOutcomes :
       (DashSettle(s, o) /\ \A q \in Thrown : o[q] # "error") => C17_Collected(o)]_vars

\* a request whose volatile-products query failed was answered with 500
\* and no data, and nothing was cached for it
C17_WholeResponseFailed ==
  /\ dLast.error = "volatile"
  /\ dLast.resp.status = 500
  /\ dLast.resp.data = NoData
  /\ ~MapHas(dCache, dLast.req.user)

\* a request whose insights query failed was answered with the other four
\* parts
C17_InsightsFailed ==
  /\ dLast.resp.status = 200
  /\ ~dLast.resp.cached
  /\ dLast.resp.data.aiInsights = "empty"
  /\ dLast.resp.data.kpis = "row"
  /\ dLast.resp.data.priceTrends = "rows"

(***************************************************************************)
(* C18                                                                     *)
(***************************************************************************)
C18_Responded == hPc = "responded"

\* the three conditions: the required parameter is missing or invalid, the
\* caller is over its rate limit, the upstream fetch failed after its
\* retries
C18_MissingParam == ~hReq.valid

C18_OverLimit == hLimited

C18_UpstreamFailed == hUpstream = "threw"

C18_WitnessMissing ==
  /\ C18_Responded
  /\ hReq.action = "fuel"
  /\ ~hReq.valid /\ ~hLimited
  /\ hStatus = 400

\* a request without its required parameter from a caller over the limit
C18_WitnessLimited ==
  /\ C18_Responded
  /\ ~hReq.valid /\ hLimited
  /\ hStatus = 429

\* a snapshot whose upstream fetches failed: 200
C18_WitnessSnapshot ==
  /\ C18_Responded
  /\ hReq.action = "snapshot"
  /\ hUpstream = "threw"
  /\ hStatus = 200

(***************************************************************************)
(* C19                                                                     *)
(***************************************************************************)
\* saveCompetitorData of product p has returned
C19_Returned(p) == save[p].pc = "returned"

\* a write of competitor j of product p failed
C19_Failed(p, j) == save[p].written[j] \in {"pharmacyError", "historyError"}

\* the price observation of competitor j of product p is stored under a
\* registry row of its name
C19_Observed(p, j) ==
  \E k \in 1..Len(pharmacies) :
    /\ pharmacies[k].user_id = RegUser
    /\ pharmacies[k].name = regProdutos[p][j].nome
    /\ BagIn([pharmacy_id |-> pharmacies[k].id, product_id |-> p,
               price |-> regProdutos[p][j].valor], price_history)

\* the monitoring result of a product is the one built from its upstream
\* response, whatever happened to its writes
C19_ResultUnchanged ==
  \A p \in 1..MaxSaves :
    /\ C19_Returned(p) <=> regResults[p] # Null
    /\ C19_Returned(p) =>
         /\ regResults[p] = Some(Monitored(p, regProdutos[p]))
         /\ regResults[p][1].total_competitors = Len(regProdutos[p])
         /\ Len(regResults[p][1].pharmacy_details) = Len(regProdutos[p])

\* every named competitor of a product has had its writes made, whatever
\* happened to the writes of the competitors before it
C19_RemainingWritten ==
  \A p \in 1..MaxSaves :
    (C19_Returned(p) /\ regUser # Null) =>
      \A j \in 1..Len(regProdutos[p]) :
        /\ regProdutos[p][j].nome # "" => save[p].written[j] # "none"
        /\ save[p].written[j] = "saved" => C19_Observed(p, j)

\* C19: a failure while writing a registry row or a price observation never
\* changes the monitoring result (a product whose upstream fetch succeeded is
\* returned fully populated even when some or all of its writes fail), and
\* the failed write of one competitor does not stop the writes for the
\* remaining competitors.
C19_WriteFailuresSkipped == C19_ResultUnchanged /\ C19_RemainingWritten

\* the registry insert of the first competitor failed, the second
\* competitor was written, and the product is returned populated
C19_Witness ==
  /\ C19_Returned(1)
  /\ Len(regProdutos[1]) = 2
  /\ save[1].written = <<"pharmacyError", "saved">>
  /\ C19_Observed(1, 2)
  /\ regResults[1] = Some(Monitored(1, regProdutos[1]))

\* every write of the pass failed and both products are returned populated
C19_WitnessAllFailed ==
  /\ \A p \in 1..MaxSaves :
       /\ C19_Returned(p)
       /\ \A j \in 1..Len(regProdutos[p]) :
            regProdutos[p][j].nome # "" => C19_Failed(p, j)
       /\ regResults[p][1].total_competitors = Len(regProdutos[p])
  /\ Len(regProdutos[1]) = 2
  /\ price_history = EmptyBag

\* the price observation of the first competitor failed and the second was
\* written
C19_WitnessHistory ==
  /\ C19_Returned(2)
  /\ save[2].written = <<"historyError", "saved">>

(***************************************************************************)
(* C20                                                                     *)
(***************************************************************************)
\* names a competitor can be observed under
C20_Names == {"A", "B"}

\* number of registry rows of the user under a name
C20_Rows(n) == Cardinality(MatchingRows(pharmacies, RegUser, n))

\* C20: after any number of monitoring passes, also when the saves of the
\* products of a pass run concurrently and observe the same competitor
\* name, the registry holds at most one row per (user, competitor name).
C20_OneRowPerName == \A n \in C20_Names : C20_Rows(n) <= 1

\* two concurrent saves of the first pass both found no row of "A" and both
\* inserted one
C20_Duplicated ==
  /\ regPasses = 1
  /\ C20_Rows("A") = 2
  /\ \A p \in 1..MaxSaves : regProdutos[p][1].nome = "A"

\* with two rows of a name the select of a later pass finds no single row
\* and a further row is inserted
C20_Multiplied ==
  /\ regPasses = 2
  /\ C20_Rows("A") >= 3

\* a name whose single row is found is reused: the pass leaves it alone
C20_Reused ==
  /\ regPasses = 2
  /\ \A p \in 1..MaxSaves : save[p].pc = "returned" /\ Len(regProdutos[p]) = 1
  /\ C20_Rows("A") = 1
  /\ BagCardinality(price_history) = 2

(***************************************************************************)
(* C21                                                                     *)
(***************************************************************************)
\* the distinct price_history rows stored for product p
C21_RowsOf(p) == {r \in BagToSet(price_history) : r.product_id = p}

RECURSIVE C21_Copies(_)
C21_Copies(rows) ==
  IF rows = {} THEN 0
  ELSE LET r == CHOOSE x \in rows : TRUE
       IN  CopiesIn(r, price_history) + C21_Copies(rows \ {r})

\* number of price observations stored for product p
C21_Count(p) == C21_Copies(C21_RowsOf(p))

\* the distinct competitor names matched in the response of product p
C21_Names(p) ==
  {regProdutos[p][j].nome : j \in 1..Len(regProdutos[p])} \ {""}

\* the records of the response of product p that name their competitor
C21_NamedRecords(p) ==
  {j \in 1..Len(regProdutos[p]) : regProdutos[p][j].nome # ""}

\* the first pass has saved every named record of product p
C21_Saved(p) ==
  /\ regPasses = 1
  /\ regUser # Null
  /\ save[p].pc = "returned"
  /\ \A j \in C21_NamedRecords(p) : save[p].written[j] = "saved"

\* C21: each successful upstream fetch for a product in a monitoring pass
\* appends exactly one price observation per distinct competitor name
\* matched in the response (not one per returned record).
C21_OnePerName ==
  \A p \in 1..MaxSaves : C21_Saved(p) => C21_Count(p) = Cardinality(C21_Names(p))

\* what the loop does: one observation per returned record that names its
\* competitor
C21_OnePerRecord ==
  \A p \in 1..MaxSaves : C21_Saved(p) => C21_Count(p) = Cardinality(C21_NamedRecords(p))

\* the pipeline only inserts observations: no step removes or changes a
\* stored row, and a step adds at most one
C21_AppendOnly ==
  [][/\ \A r \in BagToSet(price_history) :
          CopiesIn(r, price_history') >= CopiesIn(r, price_history)
     /\ BagCardinality(price_history') <= BagCardinality(price_history) + 1]_vars

\* a response with two records of competitor "A": two observations under
\* the one registry row
C21_TwoForOneName ==
  /\ C21_Saved(1)
  /\ Len(regProdutos[1]) = 2
  /\ C21_Names(1) = {"A"}
  /\ C20_Rows("A") = 1
  /\ C21_Count(1) = 2

(***************************************************************************)
(* C22                                                                     *)
(***************************************************************************)
\* the competitors scored in the last pass
C22_Scored == {k \in 1..MaxPharmacies : scReturned[k] # Null}

\* d: the number of distinct days of the trailing 30-day window on which
\* the competitor has an observation
C22_Days(k) == v_price_change_freq(scHistory, k)

\* the competitor's average and the market average are both positive
C22_Priced(k) ==
  /\ v_market_avg(scHistory, k) # Null /\ v_market_avg(scHistory, k)[1].sum > 0
  /\ v_avg_price(scHistory, k) # Null /\ v_avg_price(scHistory, k)[1].sum > 0

\* competitor_average < market_average, = market_average
C22_Cheaper(k) ==
  LET a == v_avg_price(scHistory, k)[1]
      m == v_market_avg(scHistory, k)[1]
  IN  a.sum * m.n < m.sum * a.n

C22_AtMarket(k) ==
  LET a == v_avg_price(scHistory, k)[1]
      m == v_market_avg(scHistory, k)[1]
  IN  a.sum * m.n = m.sum * a.n

\* 50 + (market_average - competitor_average) / market_average * 30 + 2 * d
\* as a fraction over den = market sum * competitor count
C22_Den(k) == v_market_avg(scHistory, k)[1].sum * v_avg_price(scHistory, k)[1].n

C22_Num(k) ==
  50 * C22_Den(k)
  + 30 * (C22_Den(k) - v_avg_price(scHistory, k)[1].sum * v_market_avg(scHistory, k)[1].n)
  + 2 * C22_Days(k) * C22_Den(k)

\* the fraction s equals clamp(num / den, 0, 100)
C22_IsClamped(s, num, den) ==
  IF num < 0 THEN s.num = 0
  ELSE IF num > 100 * den THEN s.num * 1 = 100 * s.den
  ELSE s.num * den = num * s.den

\* the score is within [0, 100]
C22_InRange(s) == 0 <= s.num /\ s.num <= 100 * s.den /\ s.den > 0

\* C22 (amended): the score of a competitor is clamp(50 + p + 2*d, 0, 100)
\* where p = (market_average - competitor_average) / market_average * 30
\* whenever both averages are positive, so p is negative for a competitor
\* dearer than the market average, and p = 0 when either average is
\* missing or zero; the score is always within [0, 100].
C22_Score ==
  \A k \in C22_Scored :
    /\ C22_InRange(scReturned[k][1])
    /\ IF C22_Priced(k)
       THEN C22_IsClamped(scReturned[k][1], C22_Num(k), C22_Den(k))
       ELSE C22_IsClamped(scReturned[k][1], 50 + 2 * C22_Days(k), 1)

\* C22 (as stated): the score is clamp(50 + p + 2*d, 0, 100) with p applied
\* only when the competitor is cheaper than the market average and p = 0
\* otherwise.
C22_Original ==
  \A k \in C22_Scored :
    /\ C22_InRange(scReturned[k][1])
    /\ IF C22_Priced(k) /\ C22_Cheaper(k)
       THEN C22_IsClamped(scReturned[k][1], C22_Num(k), C22_Den(k))
       ELSE C22_IsClamped(scReturned[k][1], 50 + 2 * C22_Days(k), 1)

\* a competitor cheaper than the market with observations on one day:
\* 50 + 6 + 2 = 58 for 8 against a market of 10
C22_Witness ==
  /\ 2 \in C22_Scored
  /\ C22_Priced(2) /\ C22_Cheaper(2)
  /\ C22_Days(2) = 1
  /\ scReturned[2][1].num * 1 = 58 * scReturned[2][1].den

\* a competitor dearer than the market is scored below 50 + 2*d
C22_WitnessDearer ==
  /\ 3 \in C22_Scored
  /\ C22_Priced(3) /\ ~C22_Cheaper(3) /\ ~C22_AtMarket(3)
  /\ scReturned[3][1].num > 0
  /\ scReturned[3][1].num < (50 + 2 * C22_Days(3)) * scReturned[3][1].den

\* the clamp acts at both ends
C22_WitnessClampedHigh ==
  /\ 2 \in C22_Scored
  /\ 50 + 2 * C22_Days(2) > 100
  /\ scReturned[2][1] = [num |-> 100, den |-> 1]

C22_WitnessClampedLow ==
  /\ 3 \in C22_Scored
  /\ C22_Priced(3) /\ C22_Num(3) < 0
  /\ scReturned[3][1].num = 0

(***************************************************************************)
(* C23                                                                     *)
(***************************************************************************)
\* the competitors of the user and their number n
C23_Competitors == Competitors(scPharmacies)

C23_Rank(k) == scPharmacies[k].competitiveness_rank

\* after a scoring pass the ranks of the n competitors are exactly 1..n
C23_DenseRanks ==
  scPasses >= 1 =>
    /\ \A k \in C23_Competitors : C23_Rank(k) # Null
    /\ {C23_Rank(k)[1] : k \in C23_Competitors} = 1..Cardinality(C23_Competitors)

\* a competitor with a strictly higher score has a smaller rank number
C23_OrderedByScore ==
  scPasses >= 1 =>
    \A a, b \in C23_Competitors :
      scPharmacies[a].agression_score > scPharmacies[b].agression_score
        => C23_Rank(a)[1] < C23_Rank(b)[1]

\* own-pharmacy rows keep the score they were inserted with and no rank
C23_OwnUntouched ==
  \A k \in 1..MaxPharmacies :
    scPharmacies[k].is_own_pharmacy => scPharmacies[k] = NewPharmacy(TRUE)

\* a second pass over the same stored data gives every competitor the rank
\* the first pass gave it
C23_SameRanks ==
  scPasses >= 2 => \A k \in C23_Competitors : C23_Rank(k) = scPrevRank[k]

\* C23: after a scoring pass for a user with n non-own competitors their
\* ranks are exactly 1..n, a competitor with a strictly higher score has a
\* smaller rank number, the rank assignment among equal scores is
\* deterministic (the same stored data always gives the same ranks), and
\* own-pharmacy rows receive neither a computed score nor a rank.
C23_Ranking ==
  /\ C23_DenseRanks
  /\ C23_OrderedByScore
  /\ C23_SameRanks
  /\ C23_OwnUntouched

\* what holds of the ranking whatever the order of equal scores
C23_RankingUpToTies ==
  /\ C23_DenseRanks
  /\ C23_OrderedByScore
  /\ C23_OwnUntouched

\* two competitors without observations, both scored 50, exchange their
\* ranks between two passes over the same data
C23_TieReordered ==
  /\ scPasses = 2
  /\ scPharmacies[1].is_own_pharmacy
  /\ scPharmacies[2].agression_score = 5000
  /\ scPharmacies[3].agression_score = 5000
  /\ scPrevRank[2] = Some(1) /\ C23_Rank(2) = Some(2)
  /\ scPrevRank[3] = Some(2) /\ C23_Rank(3) = Some(1)

\* three competitors of distinct scores are ranked by score, the own
\* pharmacy of another run being left without rank
C23_Ranked ==
  /\ scPasses = 1
  /\ Cardinality(C23_Competitors) = 3
  /\ Cardinality({scPharmacies[k].agression_score : k \in C23_Competitors}) = 3
  /\ \A a, b \in C23_Competitors :
       scPharmacies[a].agression_score > scPharmacies[b].agression_score
         => C23_Rank(a)[1] < C23_Rank(b)[1]

(***************************************************************************)
(* C24                                                                     *)
(***************************************************************************)
\* the coordinates of the profile are stored: the city row of a city
\* profile, the saved coordinates of a geolocation or postal code profile
C24_Stored(profile) ==
  IF profile.location_type = "city" THEN profile.selected_city # Null
  ELSE profile.saved_latitude # Null /\ profile.saved_longitude # Null

\* the pass ended in the error of missing coordinates
C24_CoordinatesError ==
  /\ hkState.error # Null
  /\ hkState.error[1] \in {"Localizacao nao configurada",
                           "Coordenadas da cidade nao disponiveis"}

\* a pass is running the per-product fetches
C24_Fetching == \E c \in 1..MaxCalls : hkCalls[c].pc = "monitorProductPrices"

\* C24: for an active profile of any of the three location kinds whose
\* coordinates are stored, a monitoring pass resolves the profile to those
\* coordinates and runs the per-product fetches; it ends in the coordinates
\* error only when the profile has no stored coordinates.
C24_ResolvesStored ==
  /\ C24_CoordinatesError => ~C24_Stored(hkActive[1])
  /\ \A c \in 1..MaxCalls :
       hkCalls[c].pc = "monitorProductPrices" =>
         /\ C24_Stored(hkCalls[c].profile[1])
         /\ getLocationCoordinates(hkCalls[c].profile[1]) # Null

\* the same of the geolocation and city kinds only
C24_ResolvesAutoAndCity ==
  (hkActive # Null /\ hkActive[1].location_type \in {"auto", "city"}) =>
    C24_ResolvesStored

\* a postal code profile with saved coordinates and two products ends in
\* the coordinates error
C24_CepRejected ==
  /\ hkActive # Null
  /\ hkActive[1].location_type = "cep"
  /\ hkActive[1].saved_latitude = Some(-23) /\ hkActive[1].saved_longitude = Some(-51)
  /\ hkActive[1].products = 2
  /\ hkExited >= 1
  /\ hkState.error = Some("Coordenadas da cidade nao disponiveis")

\* a postal code profile never reaches the per-product fetches
C24_CepNeverFetches ==
  (hkActive # Null /\ hkActive[1].location_type = "cep") => ~C24_Fetching

\* a geolocation profile with saved coordinates runs the fetches
C24_AutoFetches ==
  /\ hkActive # Null
  /\ hkActive[1].location_type = "auto"
  /\ C24_Fetching

(***************************************************************************)
(* C25                                                                     *)
(***************************************************************************)
\* the value is an integer between 1 and 50
C25_ValidRadius(x) ==
  /\ x.t = "num"
  /\ ~x.n.nan
  /\ x.n.v % Unit = 0
  /\ Unit <= x.n.v /\ x.n.v <= 50 * Unit

\* C25: every request the aggregation endpoint sends upstream, for each of
\* the four actions and for every value of the raio input (absent,
\* non-numeric, below 1, above 50), carries a radius that is an integer
\* between 1 and 50.
C25_RadiusInRange == rdSent # Null => C25_ValidRadius(rdSent[1])

\* what holds: a GET request whose raio is absent, empty or begins with a
\* number sends an integer between 1 and 50
C25_NumericQueryInRange ==
  (/\ rdSent # Null
   /\ rdAction # "snapshot"
   /\ (rdQuery = Null \/ rdQuery[1] = <<>> \/ ~parseInt(rdQuery[1]).nan))
  => C25_ValidRadius(rdSent[1])

\* a products request with raio=abc sends raio=NaN
C25_NaNSent ==
  /\ rdAction = "products"
  /\ rdQuery = Some(<<"a", "b", "c">>)
  /\ rdSent # Null
  /\ rdSent[1].n.nan

\* a snapshot with raio 100 sends 100, and one with raio 0 sends 0
C25_SnapshotUnclamped ==
  /\ rdAction = "snapshot"
  /\ rdBody = NumVal(100 * Unit)
  /\ rdSent = Some(NumVal(100 * Unit))

\* a categories request with raio=100 sends 50
C25_QueryClamped ==
  /\ rdAction = "categories"
  /\ rdQuery = Some(<<"1", "0", "0">>)
  /\ rdSent # Null
  /\ rdSent[1].n = Num(50 * Unit)

C26_FreshWhenBuilt ==
  (ctResp # Null /\ ~ctResp[1].cached)
  => ctResp[1].data.aiInsights = ctResp[1].insightsStored

C26_ForcedIsBuilt == (ctResp # Null /\ ctResp[1].force) => ~ctResp[1].cached

\* what holds: the insights of a response served from the cache are those
\* of the cached entry
C26_CachedFromEntry ==
  (ctResp # Null /\ ctResp[1].cached)
  => /\ MapHas(ctCache, ContentKey)
     /\ ctResp[1].data = MapGet(ctCache, ContentKey).data

C26_ForcedFresh ==
  /\ ctResp # Null
  /\ ctResp[1].force
  /\ ctReads >= 2
  /\ ctResp[1].data.aiInsights = InsightRows(1)

(***************************************************************************)
(* C27                                                                     *)
(***************************************************************************)
\* the competitors of the list all carry the score get_top_competitors
\* returned for them
C27_ScoresOf(list, rows) ==
  /\ Len(list) = Len(rows)
  /\ \A i \in 1..Len(list) :
       /\ list[i].pharmacy_id = rows[i].pharmacy_id
       /\ list[i].aggressiveness_score = rows[i].aggressiveness_score

\* C27: the aggressiveness_score of every competitor of topCompetitors
\* equals the score stored for it, in the response of the edge function
\* and after sanitizeDashboardData, and is 0 only when the stored score is
\* 0 or absent.
C27_ScoresReturned ==
  (ctResp # Null /\ ~ctResp[1].cached)
  => /\ C27_ScoresOf(ctResp[1].data.topCompetitors, ctResp[1].rowsStored)
     /\ C27_ScoresOf(ctResp[1].client, ctResp[1].rowsStored)

\* what holds: every competitor of a response has the score 0, in the body
\* and after sanitizeDashboardData, and keeps its id
C27_AlwaysZero ==
  ctResp # Null
  => /\ Len(ctResp[1].data.topCompetitors) = Len(ctScores)
     /\ Len(ctResp[1].client) = Len(ctScores)
     /\ \A i \in 1..Len(ctScores) :
          /\ ctResp[1].data.topCompetitors[i].aggressiveness_score = 0
          /\ ctResp[1].client[i].aggressiveness_score = 0
          /\ ctResp[1].client[i].pharmacy_id = ctResp[1].data.topCompetitors[i].pharmacy_id

\* what holds: the rows of get_top_competitors carry the stored scores
C27_RowsCarryStored ==
  ctResp # Null
  => \A i \in 1..Len(ctScores) :
       ctResp[1].rowsStored[i].aggressiveness_score
         = ReturnedScore(ctScores[ctResp[1].rowsStored[i].pharmacy_id])

\* a competitor stored with the score 42.50 is returned with the score 0
C27_ScoreLost ==
  /\ ctResp # Null
  /\ ~ctResp[1].cached
  /\ \E i \in 1..Len(ctScores) :
       /\ ctResp[1].rowsStored[i].aggressiveness_score = 4250
       /\ ctResp[1].data.topCompetitors[i].aggressiveness_score = 0
       /\ ctResp[1].client[i].aggressiveness_score = 0

(***************************************************************************)
(* C28                                                                     *)
(***************************************************************************)
\* C28: a cache hit never returns a payload built for a different upstream
\* query: requests share a cache key only if they agree in the action and
\* in every parameter, an absent categoria and the text "null" and values
\* containing ':' and '|' included.
C28_HitForSameQuery ==
  (shLast # Null /\ shLast[1].cached)
  => shLast[1].data.builtFor = SearchEndpoint(shLast[1].req)

\* the same of the keys alone: valid requests with one key have one endpoint
C28_KeysSeparateQueries ==
  \A r1, r2 \in SearchRequests :
    (~Invalid(r1) /\ ~Invalid(r2) /\ SearchKey(r1) = SearchKey(r2))
    => SearchEndpoint(r1) = SearchEndpoint(r2)

\* what holds: a hit of a categories or fuel request returns a payload
\* built for the query of the request
C28_OneTextParameter ==
  (shLast # Null /\ shLast[1].cached /\ shLast[1].req.action # "products")
  => shLast[1].data.builtFor = SearchEndpoint(shLast[1].req)

\* what holds: a hit returns a payload of a request of the same action
C28_SameAction ==
  (shLast # Null /\ shLast[1].cached)
  => \E r \in SearchRequests :
       /\ r.action = shLast[1].req.action
       /\ ~Invalid(r)
       /\ shLast[1].data.builtFor = SearchEndpoints[r]

\* a products request with categoria=null is answered with the payload
\* built for the request without categoria
C28_NullCollision ==
  /\ shLast # Null
  /\ shLast[1].cached
  /\ shLast[1].req = ProductsOfXNull
  /\ shLast[1].data.builtFor = SearchEndpoint(ProductsOfX)
  /\ SearchEndpoint(ProductsOfX) # SearchEndpoint(ProductsOfXNull)

\* a products request for termo y is answered with the payload built for a
\* termo that begins with x
C28_SeparatorCollision ==
  /\ shLast # Null
  /\ shLast[1].cached
  /\ shLast[1].req = ProductsLongCategoria
  /\ shLast[1].data.builtFor = SearchEndpoint(ProductsLongTermo)
  /\ SearchEndpoint(ProductsLongTermo) # SearchEndpoint(ProductsLongCategoria)

\* requests that differ in ordem have different keys
C28_OrdemSeparated ==
  /\ shLast # Null
  /\ shLast[1].req = ProductsOfXByDistance
  /\ ~shLast[1].cached
  /\ MapHas(shCache, SearchKey(ProductsOfX))
  /\ ~Expired(MapGet(shCache, SearchKey(ProductsOfX)), shNow, SEARCH_CACHE_TTL_MS)

(***************************************************************************)
(* C29                                                                     *)
(***************************************************************************)
\* the last answer is to a request identical to the one whose upstream
\* fetch succeeded last, made within the TTL of that fetch
C29_Repeated ==
  /\ shLast # Null
  /\ shLast[1].prev # Null
  /\ shLast[1].prev[1].req = shLast[1].req
  /\ shLast[1].at - shLast[1].prev[1].at <= SEARCH_CACHE_TTL_MS

\* the last answer came from the cache without an upstream call
C29_FromCache ==
  /\ shLast[1].status = 200
  /\ shLast[1].cached
  /\ shLast[1].outcome = "none"

\* C29: after a categories, products or fuel request whose upstream fetch
\* succeeded, a fetch that returned zero products included, an identical
\* request within the 15-minute TTL is answered from the cache without a
\* new upstream call.
C29_CachedAfterSuccess == C29_Repeated => C29_FromCache

\* what holds: it is so after a fetch that returned products, and after
\* every successful fetch of a categories request
C29_CachedAfterProducts ==
  (/\ C29_Repeated
   /\ (shLast[1].prev[1].outcome = "rows" \/ shLast[1].req.action = "categories"))
  => C29_FromCache

\* what holds: a request whose upstream fetch fails leaves every entry of
\* the cache as it was, but for an expired entry of its own key, which
\* getFromCache has deleted before the fetch
C29_FailureKeepsCache ==
  [][(shCount' # shCount /\ shLast'[1].status = 500)
     => /\ shFetches' = shFetches + 1
        /\ shCache' = getFromCacheMap(shCache, SearchKeys[shLast'[1].req], shNow,
                                      SEARCH_CACHE_TTL_MS)
        /\ \A j \in 1..Len(shCache) :
             ~Expired(shCache[j], shNow, SEARCH_CACHE_TTL_MS)
             => \E k \in 1..Len(shCache') : shCache'[k] = shCache[j]]_vars

\* what holds: the upstream is called by exactly the requests that are
\* valid and not answered from the cache
C29_FetchesCounted ==
  [][shCount' # shCount
     => shFetches' - shFetches
          = (IF shLast'[1].status = 400 \/ shLast'[1].cached THEN 0 ELSE 1)]_vars

\* a products request whose fetch returned zero products is repeated at
\* once and calls the upstream again
C29_ZeroRefetched ==
  /\ C29_Repeated
  /\ shLast[1].req = ProductsOfX
  /\ shLast[1].prev[1].outcome = "zero"
  /\ shLast[1].at = shLast[1].prev[1].at
  /\ ~shLast[1].cached
  /\ shLast[1].outcome = "rows"
  /\ shFetches = 2

\* a fuel request whose fetch returned products is repeated 15 minutes
\* later and answered from the cache
C29_HitAtTtl ==
  /\ C29_Repeated
  /\ shLast[1].req = FuelOf1
  /\ shLast[1].at - shLast[1].prev[1].at = SEARCH_CACHE_TTL_MS
  /\ C29_FromCache
  /\ shFetches = 1

\* a categories request whose fetch returned no products is repeated and
\* answered from the cache
C29_CategoriesZeroCached ==
  /\ C29_Repeated
  /\ shLast[1].req = CategoriesOfX
  /\ shLast[1].prev[1].outcome = "zero"
  /\ C29_FromCache

\* a request fails while the cache holds an entry, which is kept
C29_FailedWithEntry ==
  /\ shLast # Null
  /\ shLast[1].status = 500
  /\ shLast[1].req = ProductsOfX7
  /\ Len(shCache) = 1
  /\ shCache[1].key = SearchKeys[ProductsOfX]

(***************************************************************************)
(* C30                                                                     *)
(***************************************************************************)
\* the calls of fetchPrices that are running a pass
C30_InFlight == {c \in 1..MaxCalls : hkCalls[c].pc # "idle"}

\* C30: at most one monitoring pass is in flight at any time, the in-flight
\* flag is set exactly while a pass is running, and once a pass has left by
\* any of its exits (no profile, no products, success, error) and none is
\* running, loading and isAutoRefreshing are false.
C30_SinglePass ==
  /\ Cardinality(C30_InFlight) <= 1
  /\ isMonitoringRef <=> C30_InFlight # {}
  /\ (hkExited >= 1 /\ C30_InFlight = {})
     => (~hkState.loading /\ ~hkState.isAutoRefreshing)
  /\ hkMade = hkSkipped + hkExited + Cardinality(C30_InFlight)

\* a call of fetchPrices made while a pass is running returns without
\* starting a second pass and without touching the state
C30_SkippedWhileRunning ==
  [][(hkMade' # hkMade /\ C30_InFlight # {})
     => /\ hkSkipped' = hkSkipped + 1
        /\ UNCHANGED <<isMonitoringRef, hkState, hkCalls>>]_vars

\* a call of fetchPrices made while no pass is running starts one
C30_StartsWhenFree ==
  [][(hkMade' # hkMade /\ C30_InFlight = {})
     => /\ hkSkipped' = hkSkipped
        /\ isMonitoringRef'
        /\ hkCalls'[hkMade'].pc = "getActiveProfile"]_vars

\* a call was skipped while a pass was running, the pass has ended, and a
\* later call has started a new pass
C30_Witness ==
  /\ hkSkipped >= 1
  /\ hkExited >= 1
  /\ C30_InFlight = {MaxCalls}
  /\ isMonitoringRef

\* an auto-refresh tick is skipped while an auto-refresh pass is running
C30_WitnessAutoSkipped ==
  /\ hkSkipped = 1
  /\ hkExited = 1
  /\ C30_InFlight # {}
  /\ \A c \in C30_InFlight : hkCalls[c].isAutoRefresh
  /\ hkState.isAutoRefreshing

\* passes have left by the error exit and by the exit without a profile
C30_WitnessError ==
  /\ hkExited >= 1
  /\ C30_InFlight = {}
  /\ hkState.error # Null
  /\ ~isMonitoringRef

C30_WitnessNoProfile ==
  /\ hkExited >= 1
  /\ C30_InFlight = {}
  /\ hkActive = Null
  /\ hkState.error = Null
  /\ ~isMonitoringRef

\* passes have left by the exit without products and by success
C30_WitnessNoProducts ==
  /\ hkExited >= 1
  /\ C30_InFlight = {}
  /\ hkState.profile # Null
  /\ hkState.products = 0
  /\ hkState.error = Null

C30_WitnessSuccess ==
  /\ hkExited >= 1
  /\ C30_InFlight = {}
  /\ hkState.products > 0
  /\ hkState.lastUpdate

====
